---- MODULE Spec2Model ----
(***************************************************************************)
(* A model of src/canary/metta_python_patcher.py: the Observer hub, the    *)
(* reentrancy flag suspend_trace, the wrappers MonkeyPatcher installs and  *)
(* Inspector.patch_member_info, exercised on the example classes of the    *)
(* file (MyClass, BaseClass) and on a small module namespace.              *)
(*                                                                         *)
(* Python calls are modelled big-step: every function of the source is an  *)
(* operator that takes the machine state st (the mutable globals and       *)
(* namespaces) and a frame depth d, and yields [st, val, exc]: the state   *)
(* after the call, the value returned and the exception raised ("" when    *)
(* the call returns).                                                      *)
(***************************************************************************)
EXTENDS Integers, Sequences, FiniteSets, TLC

VARIABLES
    suspend_trace,    \* the module global suspend_trace (line 32)
    observers,        \* Observer.observers: event key -> list of callbacks
    class_dict,       \* MyClass.__dict__: member name -> descriptor or value
    base_dict,        \* BaseClass.__dict__
    obj_dict,         \* obj.__dict__ of the one MyClass instance obj
    module_dict,      \* the patched module's __dict__
    patched_members,  \* Inspector.patched_members: the keys of the dict
    inspector,        \* Inspector's scan state: printed_classes, printed_members,
                      \* class_hierarchy and captured_members (lines 634-637)
    initialized_classes,  \* MonkeyPatcher.initialized_classes (line 299)
    history,          \* what the run did so far, for the properties
    last              \* the last top-level operation, with what it did

vars == <<suspend_trace, observers, class_dict, base_dict, obj_dict, module_dict,
          patched_members, inspector, initialized_classes, history, last>>

-----------------------------------------------------------------------------
(* Bounds of the model *)

\* registrations accepted by subscribe over one run
MaxSubs == 2
\* frames a call chain may stack before Python raises RecursionError
RecursionLimit == 7
\* calls of monkey_patch_module over one run
MaxModulePatches == 2
\* constructions of MyClass over one run
MaxConstructions == 2
\* constructor wrappers patch_class_init stacks over one run
MaxInitWrappers == 2
\* parameters a function handed to uses_self declares
MaxParams == 3

-----------------------------------------------------------------------------
(* Python values: records tagged by type *)

None == [t |-> "None"]
Num(n) == [t |-> "int", v |-> n]
Float(n) == [t |-> "float", v |-> n]
Bool(b) == [t |-> "bool", v |-> b]
Str(s) == [t |-> "str", v |-> s]
Dict(d) == [t |-> "dict", v |-> d]
Tuple(seq) == [t |-> "tuple", v |-> seq]
ClassRef(n) == [t |-> "class", v |-> n]
ModuleRef(n) == [t |-> "module", v |-> n]
InstanceRef(n) == [t |-> "instance", v |-> n]

\* bool(x) for the values the model uses
Truthy(x) ==
    CASE x.t = "None" -> FALSE
      [] x.t = "bool" -> x.v
      [] x.t = "int" -> x.v # 0
      [] OTHER -> TRUE

\* isinstance(x, dict) and x.get(key, False)
DictFlag(x, key) ==
    /\ x.t = "dict"
    /\ key \in DOMAIN x.v
    /\ Truthy(x.v[key])

\* x.get(key) on a dict x
DictGet(x, key) == IF key \in DOMAIN x.v THEN x.v[key] ELSE None

\* sub in s, for strings
Contains(s, sub) ==
    \E i \in 1..(Len(s) + 1 - Len(sub)) : SubSeq(s, i, i + Len(sub) - 1) = sub

StartsWith(s, pre) == Len(s) >= Len(pre) /\ SubSeq(s, 1, Len(pre)) = pre

-----------------------------------------------------------------------------
(* Results of calls *)

Return(st, val) == [st |-> st, val |-> val, exc |-> ""]
Raise(st, exc) == [st |-> st, val |-> None, exc |-> exc]
Raised(r) == r.exc # ""

\* the exceptions an `except Exception` clause catches
IsException(exc) == exc \in {"NameError", "AttributeError", "ValueError", "TypeError", "RecursionError"}

Log(st, e) == [st EXCEPT !.log = Append(@, e)]

\* the machine state a top-level operation starts from; fault is the set of
\* original functions that raise in this operation
Machine(fault) ==
    [suspend_trace |-> suspend_trace, class_dict |-> class_dict, base_dict |-> base_dict,
     \* the class the patching methods are handed: MyClass unless stated
     cls |-> "MyClass",
     obj_dict |-> obj_dict, module_dict |-> module_dict,
     patched_members |-> patched_members, inspector |-> inspector,
     initialized_classes |-> initialized_classes, history |-> history,
     log |-> <<>>, fault |-> fault]

-----------------------------------------------------------------------------
(* Observer *)

EventTypes == {"before_call", "after_call", "get", "set"}
Levels == {"instance", "class", "module"}

\* f"{level}_{event_type}"
EventKey(level, event_type) == level \o "_" \o event_type

\* the substrings notify skips
Denylist == {"tokenizer", "metta_err_str", "_free"}

\* the behaviours of the subscriber callbacks the model registers
Callbacks == {"log", "veto", "value", "reader", "raiser", "args", "rewrite"}

\* the mapping a vetoing subscriber returns
VetoMapping ==
    Dict([do_not_really_call |-> Bool(TRUE), do_not_really_get |-> Bool(TRUE),
          do_not_really_set |-> Bool(TRUE), return_value |-> Num(7)])

\* the pair (args, kwargs) a subscriber replacing the arguments returns
ArgsPair == Tuple(<<Tuple(<<Num(4)>>), Dict(<<>>)>>)

\* the mapping a subscriber replacing the assigned value returns
RewriteMapping == Dict([really_set |-> Bool(TRUE), new_value |-> Num(8)])

\* what a callback returns when it returns
CallbackResult(cb) ==
    CASE cb = "veto" -> VetoMapping
      [] cb = "value" -> Num(9)
      [] cb = "args" -> ArgsPair
      [] cb = "rewrite" -> RewriteMapping
      [] OTHER -> None

RECURSIVE Call(_, _, _, _)
RECURSIVE notify_loop(_, _, _, _, _, _)
RECURSIVE notify_loop_no_break(_, _, _, _, _, _)

\* callback(*args) for a registered callback cb (line 205)
callback(st, cb, args, d) ==
    LET st1 == Log(st, [ev |-> "callback", cb |-> cb, args |-> args])
    IN
    IF d > RecursionLimit THEN Raise(st, "RecursionError")
    ELSE CASE cb = "raiser" -> Raise(st1, "ValueError")
           [] cb = "reader" ->
                LET r == Call(st1, "getattr_obj", <<"my_instance_property">>, d + 1)
                IN  IF Raised(r) THEN r ELSE Return(r.st, CallbackResult(cb))
           [] OTHER -> Return(st1, CallbackResult(cb))

\* notify_loop without the early return: every callback is called and the
\* first non-null result is kept
notify_loop_no_break(st, cbs, i, args, invoked, d) ==
    IF i > Len(cbs) THEN [st |-> st, val |-> None, exc |-> "", invoked |-> invoked]
    ELSE LET r == Call(st, "callback", <<cbs[i], args>>, d + 1)
             inv == Append(invoked, [cb |-> cbs[i], ret |-> r.val, exc |-> r.exc])
         IN  IF Raised(r)
             THEN [st |-> r.st, val |-> None, exc |-> r.exc, invoked |-> inv]
             ELSE LET rest == notify_loop_no_break(r.st, cbs, i + 1, args, inv, d)
                  IN  IF r.val # None /\ ~Raised(rest) THEN [rest EXCEPT !.val = r.val]
                      ELSE rest

\* for callback in self.observers[event_key]: ... (lines 204-207);
\* invoked collects the callbacks called so far, with what each returned
notify_loop(st, cbs, i, args, invoked, d) ==
    IF i > Len(cbs) THEN [st |-> st, val |-> None, exc |-> "", invoked |-> invoked]
    ELSE LET r == Call(st, "callback", <<cbs[i], args>>, d + 1)
             inv == Append(invoked, [cb |-> cbs[i], ret |-> r.val, exc |-> r.exc])
         IN  IF Raised(r)
             THEN [st |-> r.st, val |-> None, exc |-> r.exc, invoked |-> inv]
             ELSE IF r.val # None
             THEN [st |-> r.st, val |-> r.val, exc |-> "", invoked |-> inv]
             ELSE notify_loop(r.st, cbs, i + 1, args, inv, d)

\* one entry of the log per call of notify
NotifyEvent(flag, key, name, invoked, val, exc) ==
    [ev |-> "notify", flag |-> flag, key |-> key, name |-> name,
     invoked |-> invoked, val |-> val, exc |-> exc]

\* notify without the default: None when no callback answers
notify_no_default(st, event_type, args, level, default_value, d) ==
    LET key == EventKey(level, event_type)
        name == IF Len(args) > 1 THEN args[2].v ELSE ""
    IN
    IF d > RecursionLimit THEN Raise(st, "RecursionError")
    ELSE IF st.suspend_trace
    THEN Return(Log(st, NotifyEvent(TRUE, key, name, <<>>, None, "")), None)
    ELSE IF Len(args) > 1 /\ \E substring \in Denylist : Contains(args[2].v, substring)
    THEN Return(Log(st, NotifyEvent(FALSE, key, name, <<>>, None, "")), None)
    ELSE LET args_list == IF args[1].t = "module" THEN [args EXCEPT ![1] = None]
                          ELSE args
         IN  IF key \in DOMAIN observers
             THEN LET r == notify_loop(st, observers[key], 1, args_list, <<>>, d)
                      val == IF Raised(r) \/ r.val # None THEN r.val ELSE None
                  IN  [st |-> Log(r.st, NotifyEvent(FALSE, key, name, r.invoked, val, r.exc)),
                       val |-> val, exc |-> r.exc]
             ELSE Return(Log(st, NotifyEvent(FALSE, key, name, <<>>, None, "")),
                         None)

\* notify without the check of suspend_trace
notify_unsuspended(st, event_type, args, level, default_value, d) ==
    LET key == EventKey(level, event_type)
        name == IF Len(args) > 1 THEN args[2].v ELSE ""
    IN
    IF d > RecursionLimit THEN Raise(st, "RecursionError")
    ELSE IF Len(args) > 1 /\ \E substring \in Denylist : Contains(args[2].v, substring)
    THEN Return(Log(st, NotifyEvent(st.suspend_trace, key, name, <<>>, None, "")), None)
    ELSE LET args_list == IF args[1].t = "module" THEN [args EXCEPT ![1] = None]
                          ELSE args
         IN  IF key \in DOMAIN observers
             THEN LET r == notify_loop(st, observers[key], 1, args_list, <<>>, d)
                      val == IF Raised(r) \/ r.val # None THEN r.val ELSE default_value
                  IN  [st |-> Log(r.st, NotifyEvent(st.suspend_trace, key, name, r.invoked, val, r.exc)),
                       val |-> val, exc |-> r.exc]
             ELSE Return(Log(st, NotifyEvent(st.suspend_trace, key, name, <<>>, default_value, "")),
                         default_value)

\* notify without the test of the member name against the denylist
notify_no_denylist(st, event_type, args, level, default_value, d) ==
    LET key == EventKey(level, event_type)
        name == IF Len(args) > 1 THEN args[2].v ELSE ""
    IN
    IF d > RecursionLimit THEN Raise(st, "RecursionError")
    ELSE IF st.suspend_trace
    THEN Return(Log(st, NotifyEvent(TRUE, key, name, <<>>, None, "")), None)
    ELSE LET args_list == IF args[1].t = "module" THEN [args EXCEPT ![1] = None]
                          ELSE args
         IN  IF key \in DOMAIN observers
             THEN LET r == notify_loop(st, observers[key], 1, args_list, <<>>, d)
                      val == IF Raised(r) \/ r.val # None THEN r.val ELSE default_value
                  IN  [st |-> Log(r.st, NotifyEvent(FALSE, key, name, r.invoked, val, r.exc)),
                       val |-> val, exc |-> r.exc]
             ELSE Return(Log(st, NotifyEvent(FALSE, key, name, <<>>, default_value, "")),
                         default_value)

\* Observer.notify(func, event_type, *args, level=..., default_value=...);
\* args[1] is the owner and args[2] the member name
notify(st, event_type, args, level, default_value, d) ==
    LET key == EventKey(level, event_type)
        name == IF Len(args) > 1 THEN args[2].v ELSE ""
    IN
    IF d > RecursionLimit THEN Raise(st, "RecursionError")
    ELSE IF st.suspend_trace
    THEN Return(Log(st, NotifyEvent(TRUE, key, name, <<>>, None, "")), None)
    ELSE IF Len(args) > 1 /\ \E substring \in Denylist : Contains(args[2].v, substring)
    THEN Return(Log(st, NotifyEvent(FALSE, key, name, <<>>, None, "")), None)
    ELSE LET args_list == IF args[1].t = "module" THEN [args EXCEPT ![1] = None]
                          ELSE args
         IN  IF key \in DOMAIN observers
             THEN LET r == notify_loop(st, observers[key], 1, args_list, <<>>, d)
                      val == IF Raised(r) \/ r.val # None THEN r.val ELSE default_value
                  IN  [st |-> Log(r.st, NotifyEvent(FALSE, key, name, r.invoked, val, r.exc)),
                       val |-> val, exc |-> r.exc]
             ELSE Return(Log(st, NotifyEvent(FALSE, key, name, <<>>, default_value, "")),
                         default_value)

-----------------------------------------------------------------------------
(* The object model: functions, descriptors, attribute access *)

\* a function defined in the inspected code
Function(name, params) ==
    [t |-> "function", fn |-> "original", name |-> name, params |-> params]

\* a function the patcher creates: fn names the inner def, original is the
\* wrapped member, target the owning class or module
Closure(fn, name, original, target, level) ==
    [t |-> "function", fn |-> fn, name |-> name, original |-> original,
     target |-> target, level |-> level]

Property(fget, fset) == [t |-> "property", fget |-> fget, fset |-> fset]
StaticMethod(f) == [t |-> "staticmethod", func |-> f]
ClassMethod(f) == [t |-> "classmethod", func |-> f]
BoundMethod(f, self) == [t |-> "method", func |-> f, self |-> self]

MyClass == ClassRef("MyClass")
obj == InstanceRef("obj")
hyperonpy == ModuleRef("hyperonpy")

\* d[name] = value on a namespace
Store(dict, name, value) ==
    [n \in DOMAIN dict \cup {name} |-> IF n = name THEN value ELSE dict[n]]

\* an exception handler that re-raises and leaves suspend_trace as it is
reset_and_raise_keep_flag(r) == r

\* except Exception as e: suspend_trace = False; ...; raise  (lines 243-246, 285-288)
reset_and_raise(r) ==
    IF IsException(r.exc) THEN Raise([r.st EXCEPT !.suspend_trace = FALSE], r.exc)
    ELSE r

\* raise exc, in the body of the function name
raise_in(st, name, exc) == Raise(Log(st, [ev |-> "raise", name |-> name, exc |-> exc]), exc)

\* the bodies of the functions of MyClass (lines 974-1015) and of the module
original_body(st, name, args, d) ==
    LET st1 == Log(st, [ev |-> "original", name |-> name, args |-> args])
    IN
    IF name \in st.fault THEN raise_in(st1, name, "ValueError")
    ELSE CASE name = "my_method" ->
                IF Len(args) # 2 THEN raise_in(st1, name, "TypeError")
                ELSE Return(st1, Num(args[2].v * 2))
           [] name = "static_method" ->
                IF Len(args) > 1 THEN raise_in(st1, name, "TypeError")
                ELSE Return(st1, Num((IF Len(args) = 1 THEN args[1].v ELSE 1999) + 100))
           [] name = "class_method" ->
                IF Len(args) # 2 THEN raise_in(st1, name, "TypeError")
                ELSE Return(st1, Num(args[2].v * 3))
           [] name = "instance_method" ->
                IF Len(args) # 1 THEN raise_in(st1, name, "TypeError")
                ELSE Call(st1, "getattr_obj", <<"instance_var">>, d + 1)
           [] name = "base_instance_method" ->
                \* return self.base_instance_var  (lines 950-951); an instance
                \* of BaseClass holds what its __init__ assigned (line 948)
                IF Len(args) # 1 THEN raise_in(st1, name, "TypeError")
                ELSE IF args[1] = obj THEN Call(st1, "getattr_obj", <<"base_instance_var">>, d + 1)
                ELSE Return(st1, Num(42))
           [] name = "my_instance_property.fget" ->
                Call(st1, "getattr_obj", <<"instance_var">>, d + 1)
           [] name = "my_instance_property.fset" ->
                Call(st1, "setattr_obj", <<"instance_var", args[2]>>, d + 1)
           [] name = "__init__" ->
                \* super().__init__() assigns base_instance_var  (lines 947-948, 979-982)
                LET value == IF Len(args) = 2 THEN args[2] ELSE Str("inst_value")
                    r1 == Call(st1, "setattr_obj", <<"base_instance_var", Num(42)>>, d + 1)
                    r2 == Call(r1.st, "setattr_obj", <<"value", value>>, d + 1)
                    r3 == Call(r2.st, "setattr_obj", <<"instance_var", Num(10)>>, d + 1)
                IN  IF Len(args) \notin {1, 2} THEN raise_in(st1, name, "TypeError")
                    ELSE IF Raised(r1) THEN r1
                    ELSE IF Raised(r2) THEN r2
                    ELSE r3
           [] name = "metta_run" ->
                IF Len(args) # 1 THEN raise_in(st1, name, "TypeError")
                ELSE Return(st1, Num(args[1].v + 1))
           [] name = "metta_err_str" ->
                IF Len(args) # 1 THEN raise_in(st1, name, "TypeError")
                ELSE Return(st1, Num(args[1].v + 2))

\* the log entry a patched getter or setter leaves when its call ends
Exit(fn, name, flag_in, r) ==
    [r EXCEPT !.st = Log(@, [ev |-> "exit", fn |-> fn, name |-> name, flag_in |-> flag_in,
                             flag_out |-> r.st.suspend_trace, exc |-> r.exc])]

\* getattr(self, name, None)
getattr_default(st, name, d) ==
    LET r == Call(st, "getattr_obj", <<name>>, d)
    IN  IF r.exc = "AttributeError" THEN Return(r.st, None) ELSE r

\* instance_getter(self) made by create_instance_getter (lines 215-246)
instance_getter(st, f, self, d) ==
    Exit("instance_getter", f.name, st.suspend_trace,
    IF st.suspend_trace
    THEN getattr_default(st, "__original_" \o f.name, d)
    ELSE LET st1 == [st EXCEPT !.suspend_trace = TRUE]
             r1 == IF f.original.t = "property"
                   THEN Call(st1, "call_function", <<f.original.fget, <<self>>>>, d + 1)
                   ELSE getattr_default(st1, "__original_" \o f.name, d)
         IN  IF Raised(r1) THEN reset_and_raise(r1)
             ELSE LET st2 == [r1.st EXCEPT !.suspend_trace = FALSE]
                      r2 == Call(st2, "notify", <<"get", <<f.target, Str(f.name), r1.val>>, f.level, None>>, d + 1)
                  IN  IF Raised(r2) THEN reset_and_raise(r2)
                      ELSE IF DictFlag(r2.val, "do_not_really_get")
                      THEN Return(r2.st, DictGet(r2.val, "return_value"))
                      ELSE Return(r2.st, r1.val))

\* instance_setter(self, new_value) made by create_instance_setter (lines 251-288)
instance_setter(st, f, self, new_value, d) ==
    Exit("instance_setter", f.name, st.suspend_trace,
    IF st.suspend_trace
    THEN Return([st EXCEPT !.obj_dict = Store(@, f.name, new_value)], None)
    ELSE LET st1 == [st EXCEPT !.suspend_trace = TRUE]
             r1 == Call(st1, "notify", <<"set", <<f.target, Str(f.name), new_value>>, f.level, None>>, d + 1)
             fallback(s) == [s EXCEPT !.obj_dict = Store(@, "instance_var", new_value)]
         IN  IF Raised(r1) THEN reset_and_raise(r1)
             ELSE IF DictFlag(r1.val, "do_not_really_set")
             THEN Return([r1.st EXCEPT !.suspend_trace = FALSE], None)
             ELSE LET r2 == IF f.original.t = "property" /\ f.original.fset # None
                            THEN LET r == Call(r1.st, "call_function", <<f.original.fset, <<self, new_value>>>>, d + 1)
                                 IN  IF r.exc = "AttributeError"
                                     THEN Return(fallback(r.st), None)
                                     ELSE r
                            ELSE Return(fallback(r1.st), None)
                  IN  IF Raised(r2) THEN reset_and_raise(r2)
                      ELSE Return([r2.st EXCEPT !.suspend_trace = FALSE], None))

\* call_wrapper without the do_not_really_call branch
call_wrapper_no_suppress(st, f, bound, args, level, d) ==
    LET r1 == Call(st, "notify", <<"before_call", <<f.target, Str(f.name), Tuple(args), Dict(<<>>)>>, level, None>>, d + 1)
    IN  IF Raised(r1) THEN r1
        ELSE LET r2 == Call(r1.st, "call_function", <<f.original, bound \o args>>, d + 1)
             IN  IF Raised(r2) THEN r2
                 ELSE LET r3 == Call(r2.st, "notify", <<"after_call", <<f.target, Str(f.name), r2.val>>, level, None>>, d + 1)
                      IN  IF Raised(r3) THEN r3
                          ELSE Return(r3.st, IF r3.val # None THEN r3.val ELSE r2.val)

\* call_wrapper with a handler that swallows what the original raises and
\* goes on to the after_call notification
call_wrapper_swallowing(st, f, bound, args, level, d) ==
    LET r1 == Call(st, "notify", <<"before_call", <<f.target, Str(f.name), Tuple(args), Dict(<<>>)>>, level, None>>, d + 1)
    IN  IF Raised(r1) THEN r1
        ELSE IF DictFlag(r1.val, "do_not_really_call")
        THEN Return(r1.st, DictGet(r1.val, "return_value"))
        ELSE IF r1.val.t = "tuple" /\ Len(r1.val.v) # 2 THEN Raise(r1.st, "ValueError")
        ELSE LET modified_args == IF r1.val.t = "tuple" THEN r1.val.v[1].v ELSE args
                 r2 == Call(r1.st, "call_function", <<f.original, bound \o modified_args>>, d + 1)
                 r3 == Call(r2.st, "notify", <<"after_call", <<f.target, Str(f.name), r2.val>>, level, None>>, d + 1)
             IN  IF Raised(r3) THEN r3
                 ELSE Return(r3.st, IF r3.val # None THEN r3.val ELSE r2.val)

\* call_wrapper passing the caller's arguments whatever before_call returned
call_wrapper_keep_args(st, f, bound, args, level, d) ==
    LET r1 == Call(st, "notify", <<"before_call", <<f.target, Str(f.name), Tuple(args), Dict(<<>>)>>, level, None>>, d + 1)
    IN  IF Raised(r1) THEN r1
        ELSE IF DictFlag(r1.val, "do_not_really_call")
        THEN Return(r1.st, DictGet(r1.val, "return_value"))
        ELSE LET r2 == Call(r1.st, "call_function", <<f.original, bound \o args>>, d + 1)
             IN  IF Raised(r2) THEN r2
                 ELSE LET r3 == Call(r2.st, "notify", <<"after_call", <<f.target, Str(f.name), r2.val>>, level, None>>, d + 1)
                      IN  IF Raised(r3) THEN r3
                          ELSE Return(r3.st, IF r3.val # None THEN r3.val ELSE r2.val)

\* call_wrapper returning the original's result whatever after_call returned
call_wrapper_ignore_after(st, f, bound, args, level, d) ==
    LET r1 == Call(st, "notify", <<"before_call", <<f.target, Str(f.name), Tuple(args), Dict(<<>>)>>, level, None>>, d + 1)
    IN  IF Raised(r1) THEN r1
        ELSE IF DictFlag(r1.val, "do_not_really_call")
        THEN Return(r1.st, DictGet(r1.val, "return_value"))
        ELSE IF r1.val.t = "tuple" /\ Len(r1.val.v) # 2 THEN Raise(r1.st, "ValueError")
        ELSE LET modified_args == IF r1.val.t = "tuple" THEN r1.val.v[1].v ELSE args
                 r2 == Call(r1.st, "call_function", <<f.original, bound \o modified_args>>, d + 1)
             IN  IF Raised(r2) THEN r2
                 ELSE LET r3 == Call(r2.st, "notify", <<"after_call", <<f.target, Str(f.name), r2.val>>, level, None>>, d + 1)
                      IN  IF Raised(r3) THEN r3
                          ELSE Return(r3.st, r2.val)

\* the body shared by patched_method, patched_class_method,
\* patched_static_method and patched_function (lines 416-436, 447-468,
\* 477-497, 506-526): bound holds the implicit first argument, if any
call_wrapper(st, f, bound, args, level, d) ==
    LET r1 == Call(st, "notify", <<"before_call", <<f.target, Str(f.name), Tuple(args), Dict(<<>>)>>, level, None>>, d + 1)
    IN  IF Raised(r1) THEN r1
        ELSE IF DictFlag(r1.val, "do_not_really_call")
        THEN Return(r1.st, DictGet(r1.val, "return_value"))
        ELSE IF r1.val.t = "tuple" /\ Len(r1.val.v) # 2 THEN Raise(r1.st, "ValueError")
        ELSE LET modified_args == IF r1.val.t = "tuple" THEN r1.val.v[1].v ELSE args
                 r2 == Call(r1.st, "call_function", <<f.original, bound \o modified_args>>, d + 1)
             IN  IF Raised(r2) THEN r2
                 ELSE LET r3 == Call(r2.st, "notify", <<"after_call", <<f.target, Str(f.name), r2.val>>, level, None>>, d + 1)
                      IN  IF Raised(r3) THEN r3
                          ELSE Return(r3.st, IF r3.val # None THEN r3.val ELSE r2.val)

\* a wrapper that calls the original method and notifies nobody
patched_method_unobserved(st, f, args, d) == Call(st, "call_function", <<f.original, args>>, d + 1)

\* patched_method(instance_self, *args, **kwargs)  (lines 416-436)
patched_method(st, f, args, d) ==
    IF Len(args) = 0 THEN Raise(st, "TypeError")
    ELSE call_wrapper(st, f, <<args[1]>>, Tail(args), "instance", d)

\* patched_class_method(cls, *args, **kwargs)  (lines 447-468)
patched_class_method(st, f, args, d) ==
    IF Len(args) = 0 THEN Raise(st, "TypeError")
    ELSE call_wrapper(st, f, <<args[1]>>, Tail(args), "class", d)

\* patched_static_method(*args, **kwargs)  (lines 477-497)
patched_static_method(st, f, args, d) == call_wrapper(st, f, <<>>, args, "class", d)

\* patched_function(*args, **kwargs)  (lines 506-526)
patched_function(st, f, args, d) == call_wrapper(st, f, <<>>, args, "module", d)

\* the global rust_mode (line 34)
rust_mode == FALSE

\* the namespace a closure's target names
Namespace(st, target) ==
    IF target.t = "module" THEN st.module_dict
    ELSE IF target.v = "BaseClass" THEN st.base_dict
    ELSE st.class_dict

SetNamespace(st, target, dict) ==
    IF target.t = "module" THEN [st EXCEPT !.module_dict = dict]
    ELSE IF target.v = "BaseClass" THEN [st EXCEPT !.base_dict = dict]
    ELSE [st EXCEPT !.class_dict = dict]

\* class_getter() of patch_static_property (lines 541-553) and
\* module_getter() of patch_module_property (lines 381-392)
static_getter(st, f, d) ==
    LET private_name == "_" \o f.name
        dict == Namespace(st, f.target)
    IN  IF private_name \notin DOMAIN dict THEN Raise(st, "AttributeError")
        ELSE IF rust_mode THEN Return(st, dict[private_name])
        ELSE LET current_value == dict[private_name]
                 r == Call(st, "notify", <<"get", <<f.target, Str(f.name), current_value>>, f.level, None>>, d + 1)
             IN  IF Raised(r) THEN r
                 ELSE IF DictFlag(r.val, "do_not_really_get")
                 THEN Return(r.st, DictGet(r.val, "return_value"))
                 ELSE Return(r.st, current_value)

\* class_setter(new_value) of patch_static_property (lines 556-573) and
\* module_setter(new_value) of patch_module_property (lines 394-404)
static_setter(st, f, new_value, d) ==
    LET private_name == "_" \o f.name
        commit(s, v) == SetNamespace(s, f.target, Store(Namespace(s, f.target), private_name, v))
    IN  IF rust_mode THEN Return(commit(st, new_value), None)
        ELSE LET r == Call(st, "notify", <<"set", <<f.target, Str(f.name), new_value>>, f.level, None>>, d + 1)
             IN  IF Raised(r) THEN r
                 ELSE IF DictFlag(r.val, "do_not_really_set") THEN Return(r.st, None)
                 ELSE IF f.fn = "class_setter"
                 THEN Return(commit(r.st, IF DictFlag(r.val, "really_set")
                                             /\ "new_value" \in DOMAIN r.val.v
                                          THEN r.val.v["new_value"]
                                          ELSE new_value), None)
                 ELSE Return(commit(r.st, IF r.val # None THEN r.val ELSE new_value), None)

\* f(*args) for a function value f
call_function(st, f, args, d) ==
    IF d > RecursionLimit THEN Raise(st, "RecursionError")
    ELSE IF f.t # "function" THEN Raise(st, "TypeError")
    ELSE CASE f.fn = "original" -> original_body(st, f.name, args, d)
           [] f.fn = "instance_getter" ->
                IF Len(args) # 1 THEN Raise(st, "TypeError")
                ELSE instance_getter(st, f, args[1], d)
           [] f.fn = "instance_setter" ->
                IF Len(args) # 2 THEN Raise(st, "TypeError")
                ELSE instance_setter(st, f, args[1], args[2], d)
           [] f.fn = "patched_method" -> patched_method(st, f, args, d)
           [] f.fn = "patched_class_method" -> patched_class_method(st, f, args, d)
           [] f.fn = "patched_static_method" -> patched_static_method(st, f, args, d)
           [] f.fn = "patched_function" -> patched_function(st, f, args, d)
           [] f.fn \in {"class_getter", "module_getter"} ->
                IF Len(args) # 0 THEN Raise(st, "TypeError")
                ELSE static_getter(st, f, d)
           [] f.fn \in {"class_setter", "module_setter"} ->
                IF Len(args) # 1 THEN Raise(st, "TypeError")
                ELSE static_setter(st, f, args[1], d)

\* the lookup of name along type(obj).__mro__: MyClass, then BaseClass
in_type(st, name) == name \in DOMAIN st.class_dict \/ name \in DOMAIN st.base_dict
type_entry(st, name) ==
    IF name \in DOMAIN st.class_dict THEN st.class_dict[name] ELSE st.base_dict[name]

\* obj.name: a property of the class first, then obj.__dict__, then the
\* other class attributes, bound as their descriptors bind them
getattr_obj(st, name, d) ==
    LET inClass == in_type(st, name)
        entry == type_entry(st, name)
    IN  IF inClass /\ entry.t = "property"
        THEN IF entry.fget = None THEN Raise(st, "AttributeError")
             ELSE Call(st, "call_function", <<entry.fget, <<obj>>>>, d + 1)
        ELSE IF name \in DOMAIN st.obj_dict THEN Return(st, st.obj_dict[name])
        ELSE IF inClass
        THEN CASE entry.t = "function" -> Return(st, BoundMethod(entry, obj))
               [] entry.t = "staticmethod" -> Return(st, entry.func)
               [] entry.t = "classmethod" -> Return(st, BoundMethod(entry.func, MyClass))
               [] OTHER -> Return(st, entry)
        ELSE Raise(st, "AttributeError")

\* obj.name = value: the setter of a property of the class, else obj.__dict__
setattr_obj(st, name, value, d) ==
    LET inClass == in_type(st, name)
        entry == type_entry(st, name)
    IN  IF inClass /\ entry.t = "property"
        THEN IF entry.fset = None THEN Raise(st, "AttributeError")
             ELSE LET r == Call(st, "call_function", <<entry.fset, <<obj, value>>>>, d + 1)
                  IN  IF Raised(r) THEN r ELSE Return(r.st, None)
        ELSE Return([st EXCEPT !.obj_dict = Store(@, name, value)], None)

\* the one instance of BaseClass
base_obj == InstanceRef("base_obj")

\* base_obj.name for the members of BaseClass
getattr_base_obj(st, name, d) ==
    IF name \notin DOMAIN st.base_dict THEN Raise(st, "AttributeError")
    ELSE LET entry == st.base_dict[name]
         IN  CASE entry.t = "property" ->
                    IF entry.fget = None THEN Raise(st, "AttributeError")
                    ELSE Call(st, "call_function", <<entry.fget, <<base_obj>>>>, d + 1)
               [] entry.t = "function" -> Return(st, BoundMethod(entry, base_obj))
               [] OTHER -> Return(st, entry)

\* MyClass.name: the class attribute, bound as its descriptor binds it on a
\* class; a property read on the class is the property object itself
class_member(dict, name) ==
    LET entry == dict[name]
    IN  CASE entry.t = "staticmethod" -> entry.func
          [] entry.t = "classmethod" -> BoundMethod(entry.func, MyClass)
          [] OTHER -> entry

getattr_class(st, name) ==
    IF name \notin DOMAIN st.class_dict THEN Raise(st, "AttributeError")
    ELSE Return(st, class_member(st.class_dict, name))

\* MyClass.name = value: type.__setattr__ rebinds the name in the class
setattr_class(st, name, value) ==
    Return([st EXCEPT !.class_dict = Store(@, name, value)], None)

\* a call made from inside a call: fn names the function called, a holds
\* its arguments
Call(st, fn, a, d) ==
    CASE fn = "notify" -> notify(st, a[1], a[2], a[3], a[4], d)
      [] fn = "callback" -> callback(st, a[1], a[2], d)
      [] fn = "getattr_obj" -> getattr_obj(st, a[1], d)
      [] fn = "setattr_obj" -> setattr_obj(st, a[1], a[2], d)
      [] fn = "call_function" -> call_function(st, a[1], a[2], d)

\* callee(*args) for the value an attribute read gave
call_value(st, callee, args, d) ==
    IF callee.t = "method"
    THEN Call(st, "call_function", <<callee.func, <<callee.self>> \o args>>, d)
    ELSE Call(st, "call_function", <<callee, args>>, d)

-----------------------------------------------------------------------------
(* Classification of members *)

IsDunder(name) ==
    /\ StartsWith(name, "__")
    /\ Len(name) >= 2
    /\ SubSeq(name, Len(name) - 1, Len(name)) = "__"

\* callable(member)
callable(member) == member.t \in {"function", "method", "class", "builtin"}

\* uses_self(member)  (lines 847-854)
uses_self(member) ==
    IF ~callable(member) THEN FALSE
    ELSE IF member.t = "function" /\ member.fn = "original"
    THEN \E i \in 1..Len(member.params) : member.params[i] = "self"
    ELSE IF member.t = "method" /\ member.func.fn = "original"
    THEN \E i \in 2..Len(member.func.params) : member.func.params[i] = "self"
    ELSE IF member.t = "builtin"
    THEN \E i \in 1..Len(member.params) : member.params[i] = "self"
    ELSE FALSE

\* get_member_descriptor(obj, name) for a class  (lines 898-908)
get_member_descriptor(dict, name) == IF name \in DOMAIN dict THEN dict[name] ELSE None

\* classify_member_type testing the plain function before the descriptors
classify_member_type_function_first(dict, name, member) ==
    LET descriptor == get_member_descriptor(dict, name)
    IN  CASE member.t = "class" -> "CLASS"
          [] member.t = "module" -> "MODULE"
          [] member.t = "function" ->
               IF IsDunder(name) THEN "SPECIAL_METHOD" ELSE "FUNCTION"
          [] descriptor.t = "property" -> "PROPERTY"
          [] descriptor.t = "staticmethod" -> "STATIC_METHOD"
          [] descriptor.t = "classmethod" -> "CLASS_METHOD"
          [] member.t = "method" -> "METHOD"
          [] ~callable(member) ->
               IF IsDunder(name) THEN "SPECIAL_VARIABLE" ELSE "VARIABLE"
          [] OTHER -> IF IsDunder(name) THEN "SPECIAL_METHOD" ELSE "METHOD"

\* classify_member_type(obj, name, member)  (lines 870-896)
classify_member_type(dict, name, member) ==
    LET descriptor == get_member_descriptor(dict, name)
    IN  CASE member.t = "class" -> "CLASS"
          [] member.t = "module" -> "MODULE"
          [] descriptor.t = "property" -> "PROPERTY"
          [] descriptor.t = "staticmethod" -> "STATIC_METHOD"
          [] descriptor.t = "classmethod" -> "CLASS_METHOD"
          [] member.t = "function" ->
               IF IsDunder(name) THEN "SPECIAL_METHOD" ELSE "FUNCTION"
          [] member.t = "method" -> "METHOD"
          [] ~callable(member) ->
               IF IsDunder(name) THEN "SPECIAL_VARIABLE" ELSE "VARIABLE"
          [] OTHER -> IF IsDunder(name) THEN "SPECIAL_METHOD" ELSE "METHOD"

\* classify_member_level testing uses_self_flag before the descriptors
classify_member_level_self_first(dict, name, member, implemented_from, uses_self_flag) ==
    LET descriptor == get_member_descriptor(dict, name)
    IN  CASE descriptor.t = "property" -> "INSTANCE"
          [] uses_self_flag -> "INSTANCE"
          [] descriptor.t = "staticmethod" -> "CLASS"
          [] descriptor.t = "classmethod" -> "CLASS"
          [] ~callable(member) -> "CLASS"
          [] implemented_from = "object" -> "MODULE"
          [] OTHER -> "CLASS"

\* classify_member_level(obj, name, member, implemented_from, uses_self_flag)
\* for a class obj  (lines 910-927)
classify_member_level(dict, name, member, implemented_from, uses_self_flag) ==
    LET descriptor == get_member_descriptor(dict, name)
    IN  CASE descriptor.t = "property" -> "INSTANCE"
          [] descriptor.t = "staticmethod" -> "CLASS"
          [] descriptor.t = "classmethod" -> "CLASS"
          [] ~callable(member) -> "CLASS"
          [] uses_self_flag -> "INSTANCE"
          [] implemented_from = "object" -> "MODULE"
          [] OTHER -> "CLASS"

-----------------------------------------------------------------------------
(* MonkeyPatcher and Inspector.patch_member_info *)

\* setattr(target_class, name, value)
SetClassAttr(st, name, value) ==
    SetNamespace(st, ClassRef(st.cls), Store(Namespace(st, ClassRef(st.cls)), name, value))

\* MonkeyPatcher.patch_instance_method  (lines 412-440)
patch_instance_method(st, method_name, method) ==
    Return(SetClassAttr(st, method_name,
                        Closure("patched_method", method_name, method, ClassRef(st.cls), "instance")),
           None)

\* MonkeyPatcher.patch_class_method  (lines 442-470)
patch_class_method(st, method_name, method) ==
    IF method.t # "method" THEN Raise(st, "AttributeError")
    ELSE Return(SetClassAttr(st, method_name,
                    ClassMethod(Closure("patched_class_method", method_name, method.func,
                                        ClassRef(st.cls), "class"))),
                None)

\* MonkeyPatcher.patch_static_method  (lines 473-499)
patch_static_method(st, method_name, method) ==
    Return(SetClassAttr(st, method_name,
               StaticMethod(Closure("patched_static_method", method_name, method,
                                    ClassRef(st.cls), "class"))),
           None)

\* MonkeyPatcher.patch_instance_property  (lines 350-372)
patch_instance_property(st, property_name, original_property, level) ==
    LET getter == Closure("instance_getter", property_name, original_property, ClassRef(st.cls), level)
        setter == Closure("instance_setter", property_name, original_property, ClassRef(st.cls), level)
        new_property == IF original_property.t = "property" /\ original_property.fset # None
                        THEN Property(getter, setter)
                        ELSE Property(getter, None)
    IN  Return(SetClassAttr(st, property_name, new_property), None)

\* MonkeyPatcher.patch_static_property  (lines 532-579)
patch_static_property(st, property_name, value) ==
    LET st1 == SetClassAttr(st, "_" \o property_name, value)
    IN  Return(SetClassAttr(st1, property_name,
                   Property(Closure("class_getter", property_name, value, ClassRef(st.cls), "class"),
                            Closure("class_setter", property_name, value, ClassRef(st.cls), "class"))),
               None)

\* MonkeyPatcher.patch_module_function  (lines 502-530)
patch_module_function(st, function_name, function) ==
    Return([st EXCEPT !.module_dict =
                Store(@, function_name,
                      Closure("patched_function", function_name, function, hyperonpy, "module"))],
           None)

\* MonkeyPatcher.patch_module_property  (lines 374-409)
patch_module_property(st, property_name, value) ==
    LET dict1 == Store(st.module_dict, "_" \o property_name, value)
    IN  Return([st EXCEPT !.module_dict =
                    Store(dict1, property_name,
                          Property(Closure("module_getter", property_name, value, hyperonpy, "module"),
                                   Closure("module_setter", property_name, value, hyperonpy, "module")))],
               None)

\* the try block of patch_member_info  (lines 778-824)
install_wrapper(st, member_info) ==
    LET name == member_info.name
        member == member_info.member
        level == member_info.level
        member_type == member_info.member_type
    IN  CASE member_type = "METHOD" ->
               IF level = "INSTANCE" THEN patch_instance_method(st, name, member)
               ELSE IF level = "CLASS" THEN patch_class_method(st, name, member)
               ELSE Return(st, None)
          [] member_type = "CLASS_METHOD" -> patch_class_method(st, name, member)
          [] member_type = "STATIC_METHOD" -> patch_static_method(st, name, member)
          [] member_type = "PROPERTY" ->
               patch_instance_property(st, name,
                                       get_member_descriptor(Namespace(st, ClassRef(st.cls)), name),
                                       "instance")
          [] member_type = "VARIABLE" ->
               IF level = "CLASS" THEN patch_static_property(st, name, member)
               ELSE IF level = "INSTANCE"
               THEN patch_instance_property(st, name, member, "instance")
               ELSE Return(st, None)
          [] member_type = "FUNCTION" ->
               IF level = "INSTANCE" THEN patch_instance_method(st, name, member)
               ELSE patch_static_method(st, name, member)
          [] member_type = "SPECIAL_METHOD" ->
               IF level = "INSTANCE" THEN patch_instance_method(st, name, member)
               ELSE IF level = "CLASS" THEN patch_class_method(st, name, member)
               ELSE Return(st, None)
          [] OTHER -> Return(st, None)

\* a == b for the values of the model: numbers compare by value across int
\* and float, everything else with itself
PyEq(a, b) ==
    \/ a = b
    \/ /\ a.t \in {"int", "float"}
       /\ b.t \in {"int", "float"}
       /\ a.v = b.v

\* member in self.patched_members  (line 773): a dict lookup, by hash and ==
already_patched(st, member) == \E m \in st.patched_members : PyEq(m, member)

\* patch_member_info without the lookup in patched_members
patch_member_info_unguarded(st, member_info) ==
    LET st1 == Log([st EXCEPT !.patched_members = @ \cup {member_info.member}],
                   [ev |-> "install", name |-> member_info.name])
        r == install_wrapper(st1, member_info)
    IN  IF IsException(r.exc)
        THEN Return(Log(r.st, [ev |-> "install_error", name |-> member_info.name,
                               exc |-> r.exc]), None)
        ELSE Return(r.st, None)

\* Inspector.patch_member_info(cls, member_info)  (lines 761-826): the
\* member is recorded as patched before its wrapper is installed (lines
\* 773-776), and an exception of the installation is logged, not raised
\* (lines 825-826)
patch_member_info(st, member_info) ==
    IF already_patched(st, member_info.member) THEN Return(st, None)
    ELSE LET st1 == Log([st EXCEPT !.patched_members = @ \cup {member_info.member}],
                        [ev |-> "install", name |-> member_info.name])
             r == install_wrapper(st1, member_info)
         IN  IF IsException(r.exc)
             THEN Return(Log(r.st, [ev |-> "install_error", name |-> member_info.name,
                                    exc |-> r.exc]), None)
             ELSE Return(r.st, None)

\* the order of obj.__dict__: the variables __init__ assigns (lines 948,
\* 981-982), then the names instance_setter stores under
InstanceVarOrder == <<"base_instance_var", "value", "instance_var", "my_instance_property">>

RECURSIVE patch_instance_variables_from(_, _, _)
\* the loop of patch_instance_variables over the items of instance.__dict__,
\* with patch_one_instance_variable as its body  (lines 329-348)
patch_instance_variables_from(st, items, i) ==
    IF i > Len(items) THEN st
    ELSE patch_instance_variables_from(
             patch_member_info(st, [name |-> items[i][1], member |-> items[i][2],
                                    member_type |-> "VARIABLE", level |-> "INSTANCE",
                                    class_name |-> "MyClass"]).st,
             items, i + 1)

\* MonkeyPatcher.patch_instance_variables(instance)  (lines 325-331)
patch_instance_variables(st) ==
    LET names == SelectSeq(InstanceVarOrder, LAMBDA n : n \in DOMAIN st.obj_dict)
        items == [i \in 1..Len(names) |-> <<names[i], st.obj_dict[names[i]]>>]
    IN  patch_instance_variables_from(st, items, 1)

\* inspect.getmembers(module): the names the module starts with, sorted; the
\* patcher adds only names that start with an underscore
ModuleMembers == <<"CLOSE_PAREN", "metta_err_str", "metta_run">>

RECURSIVE monkey_patch_module_from(_, _)
\* the loop of Inspector.monkey_patch_module  (lines 830-842)
monkey_patch_module_from(st, i) ==
    IF i > Len(ModuleMembers) THEN st
    ELSE LET name == ModuleMembers[i]
             member == st.module_dict[name]
             r == IF StartsWith(name, "_") THEN Return(st, None)
                  ELSE IF member.t = "function" THEN patch_module_function(st, name, member)
                  ELSE IF ~callable(member) THEN patch_module_property(st, name, member)
                  ELSE Return(st, None)
         IN  monkey_patch_module_from(r.st, i + 1)

\* Inspector.monkey_patch_module(module)  (lines 828-842)
monkey_patch_module(st) == monkey_patch_module_from(st, 1)

-----------------------------------------------------------------------------
(* The inspected code and the initial state *)

\* MyClass.__dict__ as the class statement leaves it  (lines 974-1015)
InitClassDict ==
    "__init__" :> Function("__init__", <<"self", "value">>)
    @@ "__module__" :> Str("__main__")
    @@ "class_method" :> ClassMethod(Function("class_method", <<"cls", "z">>))
    @@ "class_value" :> Num(100)
    @@ "class_var" :> Num(100)
    @@ "instance_method" :> Function("instance_method", <<"self">>)
    @@ "my_instance_property" :>
          Property(Function("my_instance_property.fget", <<"self">>),
                   Function("my_instance_property.fset", <<"self", "value">>))
    @@ "my_method" :> Function("my_method", <<"self", "x">>)
    @@ "other_class_value" :> Num(666)
    @@ "static_method" :> StaticMethod(Function("static_method", <<"y">>))

\* BaseClass.__dict__ as the class statement leaves it  (lines 944-972)
BaseClassDict ==
    "__init__" :> Function("BaseClass.__init__", <<"self">>)
    @@ "__module__" :> Str("__main__")
    @@ "base_class_var" :> Num(41)
    @@ "base_instance_method" :> Function("base_instance_method", <<"self">>)
    @@ "base_property" :> Property(Function("base_property.fget", <<"self">>), None)

\* obj.__dict__ after MyClass()  (lines 947-948, 979-982)
InitObjDict ==
    "base_instance_var" :> Num(42)
    @@ "value" :> Str("inst_value")
    @@ "instance_var" :> Num(10)

\* the namespace of the module handed to monkey_patch_module  (lines 1061, 1070)
InitModuleDict ==
    "CLOSE_PAREN" :> Str(")")
    @@ "metta_err_str" :> Function("metta_err_str", <<"metta">>)
    @@ "metta_run" :> Function("metta_run", <<"metta">>)

\* the names inspect.getmembers(MyClass) yields for the members above, sorted
CapturedNames ==
    <<"class_method", "class_value", "class_var", "instance_method",
      "my_instance_property", "my_method", "other_class_value", "static_method">>

\* the member_info record get_members builds for a member  (lines 663-690)
member_info(dict, name) ==
    LET member == class_member(dict, name)
        implemented_from == "MyClass"
        self_usage == IF callable(member) THEN uses_self(member) ELSE FALSE
    IN  [name |-> name, member |-> member,
         member_type |-> classify_member_type(dict, name, member),
         level |-> classify_member_level(dict, name, member, implemented_from, self_usage),
         class_name |-> "MyClass"]

\* Inspector.captured_members["MyClass"] after mark_class(MyClass)
captured_members == [i \in 1..Len(CapturedNames) |-> member_info(InitClassDict, CapturedNames[i])]

NoOp ==
    [op |-> "config", name |-> "", arg |-> None, before |-> None, flag0 |-> FALSE,
     val |-> None, exc |-> "", log |-> <<>>]

Init ==
    /\ suspend_trace = FALSE
    /\ observers = <<>>
    /\ class_dict = InitClassDict
    /\ base_dict = BaseClassDict
    /\ obj_dict = InitObjDict
    /\ module_dict = InitModuleDict
    /\ patched_members = {}
    /\ inspector = [printed_classes |-> {}, printed_members |-> {},
                    class_hierarchy |-> <<>>, captured_members |-> <<>>,
                    captured_order |-> <<>>]
    /\ initialized_classes = {}
    /\ history = [scanned_all |-> FALSE, members_patched |-> FALSE, constructions |-> 0,
                  patched_records |-> {}]
    /\ last = NoOp

-----------------------------------------------------------------------------
(* Inspector: scanning classes *)

\* cls.__bases__ of the classes handed to the scans: BaseClass (line 944),
\* MyClass (line 974), MySubClass, a subclass of MyClass the caller defines,
\* shadow.MyClass, the `class MyClass(MyClass)` of another module, and
\* EmptyClass, a `class EmptyClass(BaseClass): pass`
bases(c) ==
    CASE c = "MySubClass" -> <<"MyClass">>
      [] c = "EmptyClass" -> <<"BaseClass">>
      [] c = "shadow.MyClass" -> <<"MyClass">>
      [] c = "MyClass" -> <<"BaseClass">>
      [] c = "BaseClass" -> <<"object">>
      [] c = "object" -> <<>>

RECURSIVE getmro(_)
\* inspect.getmro(cls)
getmro(c) == IF bases(c) = <<>> THEN <<c>> ELSE <<c>> \o getmro(bases(c)[1])

\* MySubClass.__dict__: a private variable and a method of the subclass
MySubClassDict ==
    "__module__" :> Str("__main__")
    @@ "_hidden" :> Num(1)
    @@ "sub_method" :> Function("sub_method", <<"self">>)

\* EmptyClass.__dict__: what the class statement itself puts there
EmptyClassDict == "__module__" :> Str("__main__")

\* shadow.MyClass.__dict__: one method of its own
ShadowDict ==
    "__module__" :> Str("shadow")
    @@ "shadow_method" :> Function("shadow_method", <<"self">>)

\* one member of object, a slot wrapper
ObjectDict ==
    "__eq__" :> [t |-> "builtin", name |-> "__eq__", params |-> <<"self", "value">>]

\* cls.__dict__: the namespace of MyClass is the live one
class_namespace(st, c) ==
    CASE c = "MyClass" -> st.class_dict
      [] c = "BaseClass" -> st.base_dict
      [] c = "MySubClass" -> MySubClassDict
      [] c = "shadow.MyClass" -> ShadowDict
      [] c = "EmptyClass" -> EmptyClassDict
      [] c = "object" -> ObjectDict

\* cls.__name__: two classes can bear one name
type_name(c) == IF c = "shadow.MyClass" THEN "MyClass" ELSE c

\* the class implemented_in stops at: obj itself if the name is in its
\* __dict__, else the first class of the MRO that holds it  (lines 859-864)
implementing_class(st, member_name, c) ==
    LET mro == getmro(c)
        found == {i \in 1..Len(mro) : member_name \in DOMAIN class_namespace(st, mro[i])}
    IN  IF found = {} THEN "None"
        ELSE mro[CHOOSE i \in found : \A j \in found : i <= j]

\* implemented_in(member_name, obj) for a class obj  (lines 856-868): the
\* __name__ of that class
implemented_in(st, member_name, c) ==
    LET k == implementing_class(st, member_name, c)
    IN  IF k = "None" THEN "None" ELSE type_name(k)

\* the names inspect.getmembers(cls) yields: those of every class of the MRO
member_names(st, c) ==
    LET mro == getmro(c)
    IN  UNION {DOMAIN class_namespace(st, mro[i]) : i \in 1..Len(mro)}

\* the order in which inspect.getmembers yields the names: sorted as strings
SortedNames ==
    <<"__eq__", "__init__", "__module__", "_class_value", "_class_var", "_hidden",
      "_other_class_value", "base_class_var", "base_instance_method", "base_instance_var",
      "base_property", "class_method", "class_value", "class_var", "instance_method",
      "instance_var", "my_instance_property", "my_method", "other_class_value",
      "shadow_method", "static_method", "sub_method", "value">>

\* classify_implementation(obj, implemented_from)  (lines 933-941)
classify_implementation(c, implemented_from) ==
    IF implemented_from = type_name(c) THEN "Local"
    ELSE IF implemented_from = "object" THEN "Default"
    ELSE IF implemented_from # "None" THEN "Inherited"
    ELSE "Local"

\* the record get_members builds for a member of obj  (lines 663-690)
scanned_member_info(st, c, name) ==
    LET implemented_from == implemented_in(st, name, c)
        \* the namespace in which getattr and get_member_descriptor find the name
        dict == class_namespace(st, implementing_class(st, name, c))
        member == class_member(dict, name)
        self_usage == IF callable(member) THEN uses_self(member) ELSE FALSE
    IN  [name |-> name, member |-> member,
         member_type |-> classify_member_type(dict, name, member),
         level |-> classify_member_level(dict, name, member, implemented_from, self_usage),
         implemented |-> classify_implementation(c, implemented_from),
         implemented_from |-> implemented_from,
         class_name |-> type_name(c)]

passes_filter_always(info, no_filter) == TRUE

\* the filtering of get_members: `if not no_filter:` ...  (lines 671-675)
passes_filter(info, no_filter) ==
    \/ no_filter
    \/ /\ info.implemented = "Local"
       /\ ~(info.level = "CLASS" /\ info.member_type = "SPECIAL_VARIABLE")

already_printed_never(st, obj_name, name) == FALSE

\* (obj_name, name) in self.printed_members  (line 677)
already_printed(st, obj_name, name) == <<obj_name, name>> \in st.inspector.printed_members

\* Inspector.get_members(obj, no_filter)  (lines 654-695); the printing of
\* the records (lines 697-718) changes no state
get_members(st, cls, no_filter) ==
    LET obj_name == type_name(cls.v)
        all_names == member_names(st, cls.v)
        members == SelectSeq(SortedNames, LAMBDA n : n \in all_names)
        recorded(name) ==
            /\ ~(StartsWith(name, "_") /\ ~IsDunder(name))
            /\ passes_filter(scanned_member_info(st, cls.v, name), no_filter)
            /\ ~already_printed(st, obj_name, name)
        names == SelectSeq(members, recorded)
        member_list == [i \in 1..Len(names) |-> scanned_member_info(st, cls.v, names[i])]
        captured == st.inspector.captured_members
        old == IF obj_name \in DOMAIN captured THEN captured[obj_name] ELSE <<>>
    IN  [st EXCEPT !.inspector.printed_members =
                       @ \cup {<<obj_name, names[i]>> : i \in 1..Len(names)},
                   !.inspector.captured_members = Store(@, obj_name, old \o member_list),
                   \* the keys of the dict, in the order they were inserted
                   !.inspector.captured_order =
                       IF obj_name \in DOMAIN captured THEN @ ELSE Append(@, obj_name)]

\* Inspector.mark_class(obj, no_filter)  (lines 640-652); class_hierarchy
\* keeps its keys in the order they were inserted
mark_class(st, cls, no_filter) ==
    IF cls.t # "class" THEN st
    ELSE IF type_name(cls.v) \in st.inspector.printed_classes THEN st
    ELSE LET st1 == get_members(st, cls, no_filter)
         IN  [st1 EXCEPT !.inspector.printed_classes = @ \cup {type_name(cls.v)},
                         !.inspector.class_hierarchy =
                             Append(@, [name |-> type_name(cls.v),
                                        bases |-> SelectSeq(bases(cls.v),
                                                            LAMBDA b : b # "object")])]

RECURSIVE mark_base_classes_from(_, _, _, _)
\* the loop of mark_base_classes over list(self.class_hierarchy.keys()), the
\* keys as they were when the call started; a class here has one base at most
mark_base_classes_from(st, keys, i, no_filter) ==
    IF i > Len(keys) THEN st
    ELSE LET base == keys[i].bases
             st1 == IF base # <<>> /\ type_name(base[1]) \notin st.inspector.printed_classes
                    THEN mark_class(st, ClassRef(base[1]), no_filter)
                    ELSE st
         IN  mark_base_classes_from(st1, keys, i + 1, no_filter)

\* Inspector.mark_base_classes(no_filter)  (lines 720-727)
mark_base_classes(st, no_filter) ==
    mark_base_classes_from(st, st.inspector.class_hierarchy, 1, no_filter)

-----------------------------------------------------------------------------
(* Operations *)

RECURSIVE SumLen(_, _)
SumLen(f, keys) ==
    IF keys = {} THEN 0
    ELSE LET k == CHOOSE x \in keys : TRUE IN Len(f[k]) + SumLen(f, keys \ {k})

\* the callbacks registered so far
Registered == SumLen(observers, DOMAIN observers)

\* Inspector.create_member_info_and_patch_member(cls, member_name, member)
\* for MyClass  (lines 737-759)
create_member_info_and_patch_member(st, member_name, member) ==
    LET uses_self_flag == IF callable(member) THEN uses_self(member) ELSE FALSE
        implemented_from == implemented_in(st, member_name, "MyClass")
        \* the namespace in which get_member_descriptor finds the name, if any
        dict == IF implemented_from = "None" THEN <<>>
                ELSE class_namespace(st, implementing_class(st, member_name, "MyClass"))
    IN  patch_member_info(st,
            [name |-> member_name, member |-> member,
             member_type |-> classify_member_type(dict, member_name, member),
             level |-> classify_member_level(dict, member_name, member, implemented_from,
                                             uses_self_flag),
             class_name |-> "MyClass"])

-----------------------------------------------------------------------------
(* Constructor patching *)

\* MonkeyPatcher.patch_class_init(cls) for MyClass  (lines 301-323)
patch_class_init(st) ==
    LET original_init == st.class_dict["__init__"]
    IN  IF "MyClass" \notin st.initialized_classes
        THEN SetClassAttr(st, "__init__",
                          Closure("wrapped_init", "__init__", original_init, MyClass, "instance"))
        ELSE st

RECURSIVE wrapped_init(_, _, _, _)
\* wrapped_init(instance, *args) made by patch_class_init  (lines 306-319);
\* f.original is the original_init the closure holds
wrapped_init(st, f, args, d) ==
    LET original_init == f.original
        st0 == Log(st, [ev |-> "wrapped_init"])
        r == IF original_init.fn = "wrapped_init"
             THEN wrapped_init(st0, original_init, args, d + 1)
             ELSE Call(st0, "call_function", <<original_init, args>>, d + 1)
    IN  IF Raised(r) THEN r
        ELSE LET st1 == IF "MyClass" \notin r.st.initialized_classes
                        THEN patch_instance_variables(
                                 Log([r.st EXCEPT !.initialized_classes = @ \cup {"MyClass"}],
                                     [ev |-> "patch_instance_variables"]))
                        ELSE r.st
             IN  Return(SetClassAttr(st1, "__init__", original_init), r.val)

\* MyClass(*args): __init__ runs on a new instance, which obj names when the
\* constructor returns
construct(st, args) ==
    LET init == st.class_dict["__init__"]
        new == [st EXCEPT !.obj_dict = <<>>,
                          !.history.constructions = @ + 1]
        r == IF init.fn = "wrapped_init" THEN wrapped_init(new, init, <<obj>> \o args, 0)
             ELSE Call(new, "call_function", <<init, <<obj>> \o args>>, 0)
    IN  IF Raised(r) THEN Raise([r.st EXCEPT !.obj_dict = st.obj_dict], r.exc)
        ELSE Return(r.st, obj)

\* Inspector.monkey_patch_members()  (lines 729-735): members[0] of the
\* first class raises IndexError if its capture list is empty (line 732); the
\* module has no global named patcher, so line 733 raises NameError otherwise
monkey_patch_members(st) ==
    LET st1 == [st EXCEPT !.history.members_patched =
                              @ \/ "MyClass" \in DOMAIN st.inspector.captured_members]
        order == st.inspector.captured_order
    IN  IF order = <<>> THEN Return(st1, None)
        ELSE IF st.inspector.captured_members[order[1]] = <<>> THEN Raise(st1, "IndexError")
        ELSE Raise(st1, "NameError")

\* the globals and namespaces after a call
Commit(st) ==
    /\ suspend_trace' = st.suspend_trace
    /\ class_dict' = st.class_dict
    /\ base_dict' = st.base_dict
    /\ obj_dict' = st.obj_dict
    /\ module_dict' = st.module_dict
    /\ patched_members' = st.patched_members
    /\ inspector' = st.inspector
    /\ initialized_classes' = st.initialized_classes
    /\ history' = st.history

\* what the operation op did: r is its result, before a value read first
Done(op, name, arg, before, r) ==
    [op |-> op, name |-> name, arg |-> arg, before |-> before, flag0 |-> suspend_trace,
     val |-> r.val, exc |-> r.exc, log |-> r.st.log]

\* Observer.subscribe(event_type, callback, level)  (lines 172-177)
subscribe(event_type, cb, level) ==
    LET key == EventKey(level, event_type)
    IN  IF key \notin DOMAIN observers THEN Store(observers, key, <<cb>>)
        ELSE Store(observers, key, Append(observers[key], cb))

Subscribe(event_type, cb, level) ==
    /\ Registered < MaxSubs
    /\ observers' = subscribe(event_type, cb, level)
    /\ last' = NoOp
    /\ UNCHANGED <<suspend_trace, class_dict, base_dict, obj_dict, module_dict,
                   patched_members, inspector, initialized_classes, history>>

\* inspector.observer.notify(None, event_type, owner, name, payload, ...)
NotifyCall(event_type, owner, name, payload, level, default_value) ==
    LET r == Call(Machine({}), "notify",
                  <<event_type, <<owner, Str(name), payload>>, level, default_value>>, 0)
    IN  /\ Commit(r.st)
        /\ last' = Done("notify", name, default_value, None, r)
        /\ UNCHANGED observers

\* inspector.patch_member_info(MyClass, captured_members[i])
PatchMemberInfo(i) ==
    LET info == captured_members[i]
        r == patch_member_info(Machine({}), info)
    IN  /\ Commit(r.st)
        /\ last' = Done("patch_member_info", info.name,
                        Bool(already_patched(Machine({}), info.member)),
                        get_member_descriptor(class_dict, info.name), r)
        /\ UNCHANGED observers

\* inspector.monkey_patcher.patch_instance_variables(obj)
PatchInstanceVariables ==
    LET r == Return(patch_instance_variables(Machine({})), None)
    IN  /\ Commit(r.st)
        /\ last' = Done("patch_instance_variables", "", None, None, r)
        /\ UNCHANGED observers

\* wrappers nested around the module function metta_run
RECURSIVE Nesting(_)
Nesting(f) == IF f.t = "function" /\ f.fn # "original" THEN 1 + Nesting(f.original) ELSE 0

\* inspector.monkey_patch_module(hyperonpy)
MonkeyPatchModule(limit) ==
    /\ Nesting(module_dict["metta_run"]) < limit
    /\ Commit(monkey_patch_module(Machine({})))
    /\ last' = NoOp
    /\ UNCHANGED observers

\* what a scan leaves in the history: whether some scan included all members
Scanned(st, no_filter) ==
    [st EXCEPT !.history.scanned_all = @ \/ no_filter]

\* inspector.mark_class(obj, no_filter)
MarkClass(c, no_filter) ==
    LET r == Return(Scanned(mark_class(Machine({}), c, no_filter), no_filter), None)
    IN  /\ Commit(r.st)
        /\ last' = Done("mark_class", c.v, Bool(no_filter), None, r)
        /\ UNCHANGED observers

\* inspector.get_members(obj, no_filter)
GetMembers(c, no_filter) ==
    LET r == Return(Scanned(get_members(Machine({}), c, no_filter), no_filter), None)
    IN  /\ Commit(r.st)
        /\ last' = Done("get_members", c.v, Bool(no_filter), None, r)
        /\ UNCHANGED observers

\* inspector.mark_base_classes(no_filter)
MarkBaseClasses(no_filter) ==
    LET r == Return(Scanned(mark_base_classes(Machine({}), no_filter), no_filter), None)
    IN  /\ Commit(r.st)
        /\ last' = Done("mark_base_classes", "", Bool(no_filter),
                        Tuple(inspector.class_hierarchy), r)
        /\ UNCHANGED observers

\* inspector.create_member_info_and_patch_member(MyClass, member_name, member)
CreateMemberInfoAndPatchMember(member_name, member) ==
    LET r == create_member_info_and_patch_member(Machine({}), member_name, member)
    IN  /\ Commit(r.st)
        /\ last' = Done("create_member_info_and_patch_member", member_name,
                        Bool(already_patched(Machine({}), member)),
                        get_member_descriptor(class_dict, member_name), r)
        /\ UNCHANGED observers

\* inspector.monkey_patcher.patch_class_init(MyClass)
PatchClassInit ==
    LET r == Return(patch_class_init(Machine({})), None)
    IN  /\ Nesting(class_dict["__init__"]) < MaxInitWrappers
        /\ Commit(r.st)
        /\ last' = Done("patch_class_init", "__init__", None, class_dict["__init__"], r)
        /\ UNCHANGED observers

\* obj = MyClass(*args)
Construct(args) ==
    LET r == construct(Machine({}), args)
    IN  /\ history.constructions < MaxConstructions
        /\ Commit(r.st)
        /\ last' = Done("construct", "__init__", Tuple(args), class_dict["__init__"], r)
        /\ UNCHANGED observers

\* inspector.monkey_patch_members()
MonkeyPatchMembers ==
    LET r == monkey_patch_members(Machine({}))
    IN  /\ Commit(r.st)
        /\ last' = Done("monkey_patch_members", "", None, None, r)
        /\ UNCHANGED observers

\* obj.name
GetAttr(name, fault) ==
    LET r == getattr_obj(Machine(fault), name, 0)
    IN  /\ Commit(r.st)
        /\ last' = Done("getattr", name, None, None, r)
        /\ UNCHANGED observers

\* obj.name = value
SetAttr(name, value, fault) ==
    LET r == setattr_obj(Machine(fault), name, value, 0)
    IN  /\ Commit(r.st)
        /\ last' = Done("setattr", name, value, getattr_obj(Machine({}), name, 0).val, r)
        /\ UNCHANGED observers

\* obj.name(*args)
CallMethod(name, args, fault) ==
    LET r0 == getattr_obj(Machine(fault), name, 0)
        r == IF Raised(r0) THEN r0 ELSE call_value(r0.st, r0.val, args, 0)
    IN  /\ Commit(r.st)
        /\ last' = Done("call", name, Tuple(args), None, r)
        /\ UNCHANGED observers

\* base_obj.name(*args)
CallBaseMethod(name, args) ==
    LET r0 == getattr_base_obj(Machine({}), name, 0)
        r == IF Raised(r0) THEN r0 ELSE call_value(r0.st, r0.val, args, 0)
    IN  /\ Commit(r.st)
        /\ last' = Done("base_call", name, Tuple(args), None, r)
        /\ UNCHANGED observers

\* the positions of the records of the member name in the capture list of c
RecordsOf(c, name) ==
    IF c \notin DOMAIN inspector.captured_members THEN {}
    ELSE {i \in 1..Len(inspector.captured_members[c]) :
              inspector.captured_members[c][i].name = name}

\* inspector.patch_member_info(cls, member_info) for the record the scan of
\* cls captured for name
PatchCaptured(c, name) ==
    /\ RecordsOf(c, name) # {}
    /\ LET info == inspector.captured_members[c][CHOOSE i \in RecordsOf(c, name) : TRUE]
           r0 == patch_member_info([Machine({}) EXCEPT !.cls = c], info)
           r == [r0 EXCEPT !.st.history.patched_records = @ \cup {<<c, name>>}]
       IN  /\ Commit(r.st)
           /\ last' = Done("patch_member_info", name,
                           Tuple(<<Str(c), Bool(already_patched(Machine({}), info.member))>>),
                           get_member_descriptor(class_namespace(Machine({}), c), name), r)
           /\ UNCHANGED observers

\* MyClass.name
ClassGetAttr(name) ==
    LET r == getattr_class(Machine({}), name)
    IN  /\ Commit(r.st)
        /\ last' = Done("class_getattr", name, None, None, r)
        /\ UNCHANGED observers

\* MyClass.name = value
ClassSetAttr(name, value) ==
    LET r == setattr_class(Machine({}), name, value)
    IN  /\ Commit(r.st)
        /\ last' = Done("class_setattr", name, value, getattr_class(Machine({}), name).val, r)
        /\ UNCHANGED observers

\* MyClass.name(*args)
CallClassAttr(name, args, fault) ==
    LET r0 == getattr_class(Machine(fault), name)
        r == IF Raised(r0) THEN r0 ELSE call_value(r0.st, r0.val, args, 0)
    IN  /\ Commit(r.st)
        /\ last' = Done("class_call", name, Tuple(args), None, r)
        /\ UNCHANGED observers

\* hyperonpy.name(*args)
CallModuleFunction(name, args, fault) ==
    LET r == call_value(Machine(fault), module_dict[name], args, 0)
    IN  /\ Commit(r.st)
        /\ last' = Done("module_call", name, Tuple(args), None, r)
        /\ UNCHANGED observers

\* the namespace of a class that holds descriptor under name, or nothing
\* when descriptor is None
ClassWith(name, descriptor) ==
    IF descriptor = None THEN <<>> ELSE [n \in {name} |-> descriptor]

\* uses_self(member)
UsesSelf(member) ==
    LET r == Return(Machine({}), Bool(uses_self(member)))
    IN  /\ Commit(r.st)
        /\ last' = Done("uses_self", "", member, None, r)
        /\ UNCHANGED observers

\* classify_member_type(cls, name, member) for a class cls whose namespace
\* holds descriptor under name
ClassifyMemberType(descriptor, name, member) ==
    LET r == Return(Machine({}), Str(classify_member_type(ClassWith(name, descriptor), name, member)))
    IN  /\ Commit(r.st)
        /\ last' = Done("classify_member_type", name, member, descriptor, r)
        /\ UNCHANGED observers

\* classify_member_level(cls, name, member, implemented_from, uses_self_flag)
\* for a class cls whose namespace holds descriptor under name
ClassifyMemberLevel(descriptor, name, member, implemented_from, uses_self_flag) ==
    LET r == Return(Machine({}),
                    Str(classify_member_level(ClassWith(name, descriptor), name, member,
                                              implemented_from, uses_self_flag)))
    IN  /\ Commit(r.st)
        /\ last' = Done("classify_member_level", name,
                        Tuple(<<member, Str(implemented_from), Bool(uses_self_flag)>>),
                        descriptor, r)
        /\ UNCHANGED observers

\* classify_implementation(cls, implemented_in(member_name, cls)), as
\* get_members computes the provenance of a member  (lines 663-670)
ClassifyImplementation(c, member_name) ==
    LET r == Return(Machine({}),
                    Str(classify_implementation(c, implemented_in(Machine({}), member_name, c))))
    IN  /\ Commit(r.st)
        /\ last' = Done("classify_implementation", c, Str(member_name), None, r)
        /\ UNCHANGED observers

-----------------------------------------------------------------------------
(* The inputs of the operations, and the specifications *)

Payloads == {Num(1)}
DefaultValues == {None, Num(0)}
WriteValues == {Num(200), Num(300)}
NotifyNames == {"my_method", "tokenizer"}
Owners == {MyClass, hyperonpy}

InstanceAttrs == {"my_instance_property", "instance_var"}
ClassVars == {"class_value", "class_var"}
InstanceMethods == {"my_method", "instance_method"}
ClassCallables == {"static_method", "class_method"}
ModuleFunctions == {"metta_run", "metta_err_str"}
Classes == {"MySubClass", "MyClass", "BaseClass"}
\* functions handed to create_member_info_and_patch_member: a method, and a
\* special method whose first parameter is not named self
NewFunctions == {Function("helper", <<"self">>), Function("__call__", <<"this">>)}

\* the arguments a call passes, and the original functions that may raise
ArgsFor(name) == IF name = "instance_method" THEN {<<>>} ELSE {<<Num(5)>>}
Faults(names) == {{}} \cup {{n} : n \in names}

IndexOf(name) == CHOOSE i \in 1..Len(CapturedNames) : CapturedNames[i] = name

\* the hub alone: registrations and direct notifications
NextHub ==
    \/ \E e \in {"get", "before_call"}, cb \in {"log", "veto", "value", "raiser"},
          l \in {"instance", "module"} : Subscribe(e, cb, l)
    \/ \E e \in {"get", "before_call"}, o \in Owners, n \in NotifyNames, p \in Payloads,
          l \in {"instance", "module"}, dv \in DefaultValues : NotifyCall(e, o, n, p, l, dv)

\* instance properties and instance variables
NextProp ==
    \/ \E e \in {"get", "set"}, cb \in {"log", "veto", "raiser"} :
          Subscribe(e, cb, "instance")
    \/ Subscribe("get", "reader", "instance")
    \/ PatchMemberInfo(IndexOf("my_instance_property"))
    \/ PatchInstanceVariables
    \/ \E f \in Faults({"my_instance_property.fget"}) : GetAttr("my_instance_property", f)
    \/ GetAttr("instance_var", {})
    \/ \E v \in WriteValues :
          \/ \E f \in Faults({"my_instance_property.fset"}) :
                 SetAttr("my_instance_property", v, f)
          \/ SetAttr("instance_var", v, {})

\* callables of the class and of the module
NextCall ==
    \/ \E cb \in {"log", "veto"}, l \in Levels : Subscribe("before_call", cb, l)
    \/ \E cb \in {"log", "veto"} : Subscribe("after_call", cb, "instance")
    \/ \E n \in InstanceMethods \cup ClassCallables : PatchMemberInfo(IndexOf(n))
    \/ MonkeyPatchModule(1)
    \/ \E n \in InstanceMethods : \E a \in ArgsFor(n), f \in Faults({n}) : CallMethod(n, a, f)
    \/ \E n \in ClassCallables : \E a \in ArgsFor(n) : CallClassAttr(n, a, {})
    \/ \E n \in ModuleFunctions : \E a \in ArgsFor(n) : CallModuleFunction(n, a, {})

\* class-level variables
NextClassVar ==
    \/ \E e \in {"get", "set"}, cb \in {"log", "veto"} : Subscribe(e, cb, "class")
    \/ Subscribe("set", "rewrite", "class")
    \/ \E n \in ClassVars : PatchMemberInfo(IndexOf(n))
    \/ \E n \in ClassVars : ClassGetAttr(n)
    \/ \E n \in ClassVars, v \in {Num(300)} : ClassSetAttr(n, v)
    \/ \E n \in ClassVars : GetAttr(n, {})
    \/ \E n \in ClassVars, v \in {Num(300)} : SetAttr(n, v, {})

\* the bookkeeping of patched members
NextPatch ==
    \/ \E cb \in {"log", "veto"} : Subscribe("get", cb, "instance")
    \/ \E n \in {"value", "instance_var"}, v \in {Num(42), Float(42), Num(5)} :
           SetAttr(n, v, {})
    \/ PatchInstanceVariables
    \/ \E n \in {"base_instance_var", "value", "instance_var"} : GetAttr(n, {})
    \/ \E f \in NewFunctions : CreateMemberInfoAndPatchMember(f.name, f)

\* repeated patching of the module
NextModule ==
    \/ \E e \in {"before_call", "after_call"}, cb \in {"log", "veto"} :
           Subscribe(e, cb, "module")
    \/ MonkeyPatchModule(MaxModulePatches)
    \/ \E n \in ModuleFunctions, dv \in DefaultValues :
          NotifyCall("before_call", hyperonpy, n, Tuple(<<Num(5)>>), "module", dv)
    \/ \E n \in ModuleFunctions : \E a \in ArgsFor(n) : CallModuleFunction(n, a, {})

\* the scans of the inspector
NextScan ==
    \/ \E c \in {ClassRef(n) : n \in Classes} \cup {obj}, nf \in BOOLEAN : MarkClass(c, nf)
    \/ \E c \in {ClassRef("MySubClass"), MyClass}, nf \in BOOLEAN : GetMembers(c, nf)
    \/ \E nf \in BOOLEAN : MarkBaseClasses(nf)

\* a class and its base, scanned with all their members and patched
NextInherit ==
    \/ \E cb \in {"log", "veto"} : Subscribe("before_call", cb, "instance")
    \/ \E c \in {MyClass, ClassRef("BaseClass")} : MarkClass(c, TRUE)
    \/ \E c \in {"MyClass", "BaseClass"}, n \in {"base_instance_method", "my_method"} :
          PatchCaptured(c, n)
    \/ CallMethod("base_instance_method", <<>>, {})
    \/ CallBaseMethod("base_instance_method", <<>>)

\* the patching of what the scans captured
NextRegistry ==
    \/ \E c \in {MyClass, ClassRef("BaseClass"), ClassRef("EmptyClass")}, nf \in BOOLEAN :
          MarkClass(c, nf)
    \/ \E nf \in BOOLEAN : MarkBaseClasses(nf)
    \/ MonkeyPatchMembers

\* the patching of the constructor
NextInit ==
    \/ \E e \in {"get", "set"} : Subscribe(e, "log", "instance")
    \/ MarkClass(MyClass, FALSE)
    \/ MonkeyPatchMembers
    \/ PatchClassInit
    \/ \E a \in {<<>>, <<Num(5)>>} : Construct(a)
    \/ \E n \in {"value", "instance_var"} : GetAttr(n, {})
    \/ SetAttr("instance_var", Num(200), {})

\* calls of the four kinds of wrappers, with originals that may raise and
\* before_call subscribers that replace the arguments or return a mapping
NextWrap ==
    \/ \E cb \in {"args", "rewrite"}, l \in Levels : Subscribe("before_call", cb, l)
    \/ \E n \in {"my_method"} \cup ClassCallables : PatchMemberInfo(IndexOf(n))
    \/ MonkeyPatchModule(1)
    \/ \E f \in Faults({"my_method"}) : CallMethod("my_method", <<Num(5)>>, f)
    \/ \E n \in ClassCallables : \E f \in Faults({n}) : CallClassAttr(n, <<Num(5)>>, f)
    \/ \E f \in Faults({"metta_run"}) : CallModuleFunction("metta_run", <<Num(5)>>, f)

\* the functions handed to uses_self: every parameter list up to MaxParams
SampleFunctions ==
    {Function("f", params) : params \in UNION {[1..n -> {"self", "x"}] : n \in 0..MaxParams}}
SampleBuiltin == [t |-> "builtin", name |-> "f", params |-> <<"self", "value">>]
SampleCallables ==
    SampleFunctions \cup {BoundMethod(f, MyClass) : f \in SampleFunctions}
        \cup {SampleBuiltin, Num(1)}

\* what a class namespace may hold under a name, and what may be handed to
\* the classifiers as the member of that name
SampleDescriptors ==
    {None, Num(1), MyClass, Function("f", <<"self">>),
     Property(Function("f", <<"self">>), None),
     StaticMethod(Function("f", <<"x">>)), ClassMethod(Function("f", <<"cls">>))}
SampleMembers ==
    {Num(1), MyClass, hyperonpy, Function("f", <<"self">>),
     Property(Function("f", <<"self">>), None),
     BoundMethod(Function("f", <<"cls">>), MyClass), SampleBuiltin}

\* the classes whose members are classified, and names their MROs hold
ScannedClasses == {"BaseClass", "MyClass", "MySubClass", "shadow.MyClass"}
ProvenanceNames ==
    {"__eq__", "__init__", "base_instance_method", "class_var", "my_method",
     "shadow_method", "sub_method"}

\* the classifiers applied to their inputs
NextClassify ==
    \/ \E c \in ScannedClasses :
          \E member_name \in ProvenanceNames \cap member_names(Machine({}), c) :
              ClassifyImplementation(c, member_name)
    \/ \E member \in SampleCallables : UsesSelf(member)
    \/ \E descriptor \in SampleDescriptors, name \in {"f", "__f__"}, member \in SampleMembers :
          ClassifyMemberType(descriptor, name, member)
    \/ \E descriptor \in SampleDescriptors, member \in SampleMembers,
          implemented_from \in {"MyClass", "object"}, uses_self_flag \in BOOLEAN :
          ClassifyMemberLevel(descriptor, "f", member, implemented_from, uses_self_flag)

Next == NextHub \/ NextProp \/ NextCall \/ NextClassVar \/ NextPatch \/ NextModule
        \/ NextScan \/ NextInherit \/ NextRegistry \/ NextInit \/ NextWrap \/ NextClassify

Spec == Init /\ [][Next]_vars
SpecHub == Init /\ [][NextHub]_vars
SpecProp == Init /\ [][NextProp]_vars
SpecCall == Init /\ [][NextCall]_vars
SpecClassVar == Init /\ [][NextClassVar]_vars
SpecPatch == Init /\ [][NextPatch]_vars
SpecModule == Init /\ [][NextModule]_vars
SpecWrap == Init /\ [][NextWrap]_vars
SpecClassify == Init /\ [][NextClassify]_vars
SpecRegistry == Init /\ [][NextRegistry]_vars
SpecInherit == Init /\ [][NextInherit]_vars
SpecScan == Init /\ [][NextScan]_vars
SpecInit == Init /\ [][NextInit]_vars

-----------------------------------------------------------------------------
(* Properties *)

LogIndices(ev) == {i \in 1..Len(last.log) : last.log[i].ev = ev}

\* the log entries of the calls of notify under key
NotifiedAt(key) == {i \in LogIndices("notify") : last.log[i].key = key}

\* the log entries of the runs of the original function name
OriginalRuns(name) == {i \in LogIndices("original") : last.log[i].name = name}

Denylisted(name) == \E substring \in Denylist : Contains(name, substring)

Subscribers(key) == IF key \in DOMAIN observers THEN observers[key] ELSE <<>>

\* the first non-null result of the callbacks cbs from position i on, else dv
RECURSIVE FirstNonNull(_, _, _)
FirstNonNull(cbs, i, dv) ==
    IF i > Len(cbs) THEN dv
    ELSE IF CallbackResult(cbs[i]) # None THEN CallbackResult(cbs[i])
    ELSE FirstNonNull(cbs, i + 1, dv)

\* C1: of two subscribers registered under one key, the later one is not
\* invoked for an event once the earlier one has returned a non-null result:
\* every notification calls a prefix of the registered callbacks, in
\* registration order, and only the last one called may have returned non-null
C1_FirstNonNullStopsDispatch ==
    \A i \in LogIndices("notify") :
        LET e == last.log[i]
        IN  \A a \in 1..Len(e.invoked) :
                /\ a <= Len(Subscribers(e.key))
                /\ e.invoked[a].cb = Subscribers(e.key)[a]
                /\ (e.invoked[a].ret # None => a = Len(e.invoked))

\* a notification where the first of two subscribers answered and the second
\* was not called
C1_Witness ==
    \E i \in LogIndices("notify") :
        LET e == last.log[i]
        IN  /\ Len(Subscribers(e.key)) = 2
            /\ Len(e.invoked) = 1
            /\ e.invoked[1].ret # None

\* C2: with suspend_trace clear and a member name that is not denylisted,
\* notify returns the first non-null callback result in registration order,
\* and default_value when the key has no subscriber or all return None
C2_NotifyResult ==
    (/\ last.op = "notify"
     /\ ~last.flag0
     /\ ~Denylisted(last.name)
     /\ last.exc = "")
    => LET e == last.log[Len(last.log)]
       IN  last.val = FirstNonNull(Subscribers(e.key), 1, last.arg)

\* a notification answered by the second subscriber after the first returned
\* None, with a default that is not None
C2_Witness ==
    /\ last.op = "notify"
    /\ ~last.flag0
    /\ ~Denylisted(last.name)
    /\ last.arg # None
    /\ LET e == last.log[Len(last.log)]
       IN  /\ Len(e.invoked) = 2
           /\ e.invoked[1].ret = None
           /\ last.val = e.invoked[2].ret
           /\ last.val # None

\* C3: a call of notify made while suspend_trace is set calls no callback
\* and returns None
C3_SuspendedNotifyIsNoOp ==
    \A i \in LogIndices("notify") :
        last.log[i].flag =>
            /\ last.log[i].invoked = <<>>
            /\ last.log[i].val = None
            /\ last.log[i].exc = ""

\* notify was called with suspend_trace set under a key that has subscribers
C3_Witness ==
    \E i \in LogIndices("notify") :
        /\ last.log[i].flag
        /\ Subscribers(last.log[i].key) # <<>>

IsPatchedProperty(name) ==
    /\ name \in DOMAIN class_dict
    /\ class_dict[name].t = "property"
    /\ class_dict[name].fget # None
    /\ class_dict[name].fget.fn = "instance_getter"

\* C4: a get subscriber that reads the patched property it is notified about
\* is invoked once per outer read, and the read does not exhaust the stack
C4_NoNestedGetNotification ==
    (/\ last.op = "getattr"
     /\ last.name = "my_instance_property"
     /\ IsPatchedProperty("my_instance_property")
     /\ ~last.flag0
     /\ Subscribers("instance_get") = <<"reader">>)
    => /\ Cardinality(LogIndices("callback")) = 1
       /\ last.exc # "RecursionError"

\* C5: a call of a patched instance getter or setter that starts with
\* suspend_trace clear ends, by return or by exception, with it clear
C5_FlagClearedOnExit ==
    \A i \in LogIndices("exit") :
        ~last.log[i].flag_in => ~last.log[i].flag_out

\* a patched getter or setter entered with the flag clear has raised
C5_Witness ==
    \E i \in LogIndices("exit") :
        /\ ~last.log[i].flag_in
        /\ last.log[i].exc = "ValueError"

CallOps == {"call", "class_call", "module_call"}

\* the function a call of the last operation reached first
Callee ==
    CASE last.op = "call" -> class_dict[last.name]
      [] last.op = "class_call" -> class_dict[last.name].func
      [] last.op = "module_call" -> module_dict[last.name]

Wrappers == {"patched_method", "patched_class_method", "patched_static_method",
             "patched_function"}

\* the last operation called a patched callable with suspend_trace clear
PatchedCall ==
    /\ last.op \in CallOps
    /\ ~last.flag0
    /\ Callee.t = "function"
    /\ Callee.fn \in Wrappers

\* a suppressing subscriber is registered in cbs, behind none that answers
VetoFirst(cbs) ==
    \E i \in 1..Len(cbs) :
        /\ cbs[i] = "veto"
        /\ \A j \in 1..(i - 1) : CallbackResult(cbs[j]) = None

Suppressed ==
    /\ OriginalRuns(last.name) = {}
    /\ last.exc = ""
    /\ last.val = DictGet(VetoMapping, "return_value")

\* C6 as stated, for a member of any name: a suppressing subscriber
\* registered at (S, before_call) keeps the original body of a patched
\* callable from running and makes the wrapper return return_value
C6_SuppressAnyName ==
    (/\ PatchedCall
     /\ VetoFirst(Subscribers(EventKey(Callee.level, "before_call"))))
    => Suppressed

\* C6: for a patched callable whose member name holds no denylisted
\* fragment, called with suspend_trace clear, a suppressing subscriber that
\* is the first to answer at (S, before_call) keeps the original body from
\* running and makes the wrapper return return_value
C6_SuppressCall ==
    (/\ PatchedCall
     /\ ~Denylisted(last.name)
     /\ VetoFirst(Subscribers(EventKey(Callee.level, "before_call"))))
    => Suppressed

\* a patched module function was called and suppressed behind a subscriber
\* that returned None
C6_Witness ==
    /\ PatchedCall
    /\ last.op = "module_call"
    /\ ~Denylisted(last.name)
    /\ Subscribers(EventKey(Callee.level, "before_call")) = <<"log", "veto">>
    /\ Suppressed

\* C7: a call of a patched instance method whose only before_call subscriber
\* at scope instance returns None invokes that subscriber exactly once,
\* before the original body runs, and returns what the original returns
\* (no after_call subscriber answering in its place)
C7_BeforeCallOnceThenOriginal ==
    (/\ PatchedCall
     /\ last.op = "call"
     /\ Callee.fn = "patched_method"
     /\ Subscribers("instance_before_call") = <<"log">>)
    => /\ Cardinality(NotifiedAt("instance_before_call")) = 1
       /\ \A i \in NotifiedAt("instance_before_call") :
              /\ Len(last.log[i].invoked) = 1
              /\ last.log[i].invoked[1].cb = "log"
              /\ \A j \in OriginalRuns(last.name) : i < j
       /\ Cardinality(OriginalRuns(last.name)) = 1
       /\ ((last.exc = "" /\ \A a \in 1..Len(Subscribers("instance_after_call")) :
                                 CallbackResult(Subscribers("instance_after_call")[a]) = None)
           => last.val = call_function(Machine({}), Callee.original,
                                       <<obj>> \o last.arg.v, 0).val)

\* my_method(5) was called through its wrapper with the one subscriber and
\* returned 10
C7_Witness ==
    /\ PatchedCall
    /\ last.op = "call"
    /\ last.name = "my_method"
    /\ Callee.fn = "patched_method"
    /\ Subscribers("instance_before_call") = <<"log">>
    /\ last.exc = ""
    /\ last.val = Num(10)

\* the instance properties that are patched
PatchedProperties == {n \in InstanceAttrs : IsPatchedProperty(n)}

\* C8: a patched instance property read with no subscriber gives what the
\* unpatched class gives for obj, and once set to V it reads V, whatever
\* else of the class is patched
C8_PropertyRoundTrip ==
    /\ (/\ last.op = "getattr"
        /\ last.name \in PatchedProperties
        /\ observers = <<>>
        /\ last.exc = "")
       => last.val = obj_dict["instance_var"]
    /\ (/\ last.op = "setattr"
        /\ last.name \in PatchedProperties
        /\ observers = <<>>
        /\ last.exc = "")
       => getattr_obj(Machine({}), last.name, 0).val = last.arg

\* C9: a set subscriber returning do_not_really_set keeps the original
\* setter of a patched instance property from running, and the property
\* reads afterwards what it read before
C9_VetoedSetKeepsValue ==
    (/\ last.op = "setattr"
     /\ last.name = "my_instance_property"
     /\ IsPatchedProperty(last.name)
     /\ class_dict[last.name].fset # None
     /\ ~last.flag0
     /\ Subscribers("instance_set") = <<"veto">>
     /\ Subscribers("instance_get") = <<>>)
    => /\ OriginalRuns("my_instance_property.fset") = {}
       /\ getattr_obj(Machine({}), last.name, 0).val = last.before

\* C10: assigning 300 through the class to a patched class variable that
\* started at 100, with a suppressing set subscriber at scope class,
\* notifies the subscriber and leaves the variable reading 100
C10_VetoedClassAssignment ==
    (/\ last.op = "class_setattr"
     /\ last.arg = Num(300)
     /\ last.before.t = "property"
     /\ last.before.fget.fn = "class_getter"
     /\ last.before.fget.original = Num(100)
     /\ Subscribers("class_set") = <<"veto">>)
    => /\ \E i \in LogIndices("callback") : last.log[i].cb = "veto"
       /\ getattr_class(Machine({}), last.name).val = Num(100)

\* the wrapper installations the last operation made
Installs == LogIndices("install")

\* C11: a second application of patch_member_info to a member record
\* installs nothing, raises nothing and leaves the binding of the name in
\* the class as it was, and a call of a member patched through
\* patch_member_info passes through one wrapper: it notifies before_call once
C11_SecondPatchIsNoOp ==
    /\ (/\ last.op = "patch_member_info"
        /\ last.arg = Bool(TRUE))
       => /\ Installs = {}
          /\ last.exc = ""
          /\ get_member_descriptor(class_dict, last.name) = last.before
    /\ (/\ PatchedCall
        /\ last.op \in {"call", "class_call"}
        /\ ~Denylisted(last.name))
       => /\ Callee.original.fn = "original"
          /\ Cardinality(NotifiedAt(EventKey(Callee.level, "before_call"))) = 1

\* patch_member_info was applied again to my_method, whose binding was and
\* stays the wrapper of the first application
C11_Witness ==
    /\ last.op = "patch_member_info"
    /\ last.name = "my_method"
    /\ last.arg = Bool(TRUE)
    /\ last.before.t = "function"
    /\ last.before.fn = "patched_method"
    /\ class_dict["my_method"] = last.before

\* the names the last operation installed a wrapper for
Installed == {last.log[i].name : i \in Installs}

\* C12: a member is skipped as already patched only if that very object was
\* patched before: after a pass over the instance variables, each variable
\* that got no wrapper holds an object that is itself among the patched ones
C12_SkippedOnlyByIdentity ==
    last.op = "patch_instance_variables"
    => \A n \in DOMAIN obj_dict :
           n \notin Installed => obj_dict[n] \in patched_members

\* C13: wrappers never nest: a call of a patched callable dispatches at most
\* one before_call and at most one after_call notification
C13_AtMostOneNotificationPerCall ==
    PatchedCall
    => \A e \in {"before_call", "after_call"} :
           Cardinality(NotifiedAt(EventKey(Callee.level, e))) <= 1

\* the records of the capture lists, as pairs of a class name and a position
CapturedRecords ==
    UNION {{<<c, i>> : i \in 1..Len(inspector.captured_members[c])} :
               c \in DOMAIN inspector.captured_members}

\* C16: as long as no scan included all members, every captured record has
\* provenance Local and none is both Class-scoped and a SpecialVariable
C16_FilteredScansKeepLocal ==
    ~history.scanned_all
    => \A p \in CapturedRecords :
           LET info == inspector.captured_members[p[1]][p[2]]
           IN  /\ info.implemented = "Local"
               /\ ~(info.level = "CLASS" /\ info.member_type = "SPECIAL_VARIABLE")

C16_Witness ==
    /\ ~history.scanned_all
    /\ last.op = "get_members"
    /\ last.name = "MySubClass"
    /\ implemented_in(Machine({}), "my_method", "MySubClass") = "MyClass"
    /\ \E p \in CapturedRecords :
           /\ p[1] = "MySubClass"
           /\ inspector.captured_members[p[1]][p[2]].name = "sub_method"
    /\ <<"MySubClass", "__module__">> \notin inspector.printed_members
    /\ <<"MySubClass", "my_method">> \notin inspector.printed_members

\* C17: a scan that includes all members records every member of the class,
\* those whose name begins with a single underscore and the inherited ones
C17_IncludeAllRecordsEveryMember ==
    (/\ last.op = "get_members"
     /\ last.arg = Bool(TRUE))
    => \A n \in member_names(Machine({}), last.name) :
           <<last.name, n>> \in inspector.printed_members

\* C18: the capture lists hold at most one record per pair of a class name
\* and a member name
C18_OneRecordPerMember ==
    \A p \in CapturedRecords, q \in CapturedRecords :
        (/\ p[1] = q[1]
         /\ inspector.captured_members[p[1]][p[2]].name
                = inspector.captured_members[q[1]][q[2]].name)
        => p[2] = q[2]

C18_Witness ==
    /\ last.op = "get_members"
    /\ last.name = "MyClass"
    /\ "MyClass" \in inspector.printed_classes
    /\ \E p \in CapturedRecords :
           /\ p[1] = "MyClass"
           /\ inspector.captured_members[p[1]][p[2]].name = "my_method"

\* the proper ancestors of a class other than object
Ancestors(c) == {getmro(c)[i] : i \in 2..Len(getmro(c))} \ {"object"}

\* C19: after one call of mark_base_classes every proper ancestor, other
\* than object, of every scanned class is scanned and is a key of the
\* hierarchy map
C19_BaseClassesClosed ==
    last.op = "mark_base_classes"
    => \A c \in inspector.printed_classes : \A a \in Ancestors(c) :
           /\ a \in inspector.printed_classes
           /\ \E i \in 1..Len(inspector.class_hierarchy) :
                  inspector.class_hierarchy[i].name = a

\* the constructor MyClass defines  (lines 979-982)
OriginalInit == InitClassDict["__init__"]

\* C14: monkey_patch_members arranges the pass over the instance variables:
\* once it was called for MyClass, a construction that returns has run the
\* pass, once, right after the original constructor
C14_PassRunsAtFirstConstruction ==
    (/\ last.op = "construct"
     /\ last.exc = ""
     /\ history.members_patched)
    => "MyClass" \in initialized_classes

\* C15: when a construction through the constructor wrapper has returned,
\* the constructor of MyClass is the original one again, and a later
\* construction does not run the wrapper
C15_OriginalConstructorRestored ==
    (/\ last.op = "construct"
     /\ last.exc = ""
     /\ "MyClass" \in initialized_classes)
    => /\ class_dict["__init__"] = OriginalInit
       /\ (LogIndices("patch_instance_variables") = {}
           => LogIndices("wrapped_init") = {})

\* C20: an exception raised while a wrapper is installed reaches the caller
\* of patch_member_info
C20_InstallErrorReraised ==
    last.op \in {"patch_member_info", "create_member_info_and_patch_member"}
    => \A i \in LogIndices("install_error") : last.exc = last.log[i].exc

\* the log entries of the exceptions raised in the body of the function name
RaisedIn(name) == {i \in LogIndices("raise") : last.log[i].name = name}

\* C21: when the original callable raises during a call of its wrapper
\* (instance, class, static or module wrapper), the call raises that same
\* exception, and no after_call notification is dispatched
C21_OriginalRaisePropagates ==
    (/\ PatchedCall
     /\ RaisedIn(last.name) # {})
    => /\ \A i \in RaisedIn(last.name) : last.exc = last.log[i].exc
       /\ NotifiedAt(EventKey(Callee.level, "after_call")) = {}

\* the patched static method was called, its original raised ValueError and
\* the call raised it
C21_Witness ==
    /\ PatchedCall
    /\ last.name = "static_method"
    /\ Callee.fn = "patched_static_method"
    /\ \E i \in RaisedIn(last.name) : last.log[i].exc = "ValueError"
    /\ last.exc = "ValueError"

\* a subscriber returning the rewriting mapping is registered in cbs,
\* behind none that answers
RewriteFirst(cbs) ==
    \E i \in 1..Len(cbs) :
        /\ cbs[i] = "rewrite"
        /\ \A j \in 1..(i - 1) : CallbackResult(cbs[j]) = None

\* C22: an assignment to a patched class-level variable, with a set
\* subscriber at scope class that returns a mapping with a truthy really_set
\* flag and new_value W, commits W: the variable holds W afterwards
C22_RewrittenAssignmentCommitsNewValue ==
    (/\ last.op = "class_setattr"
     /\ last.before.t = "property"
     /\ last.before.fset.fn = "class_setter"
     /\ RewriteFirst(Subscribers("class_set")))
    => /\ last.exc = ""
       /\ DictGet(RewriteMapping, "new_value")
             \in {class_dict[last.name], class_dict["_" \o last.name]}

\* the implicit first argument the wrapper of the last call hands on
BoundArgs ==
    CASE Callee.fn = "patched_method" -> <<obj>>
      [] Callee.fn = "patched_class_method" -> <<MyClass>>
      [] OTHER -> <<>>

\* the original of the last call ran once, with args behind the implicit
\* first argument
OriginalRanWith(args) ==
    /\ Cardinality(OriginalRuns(last.name)) = 1
    /\ \A j \in OriginalRuns(last.name) : last.log[j].args = BoundArgs \o args

\* C23: when the before_call notification of a patched callable yields a
\* pair (positional-args, keyword-args), the original is invoked with those
\* positional arguments; when it yields None, or a mapping without a truthy
\* do_not_really_call flag, the original is invoked with the caller's
\* arguments
C23_ArgumentsHandedToOriginal ==
    PatchedCall =>
        \A i \in NotifiedAt(EventKey(Callee.level, "before_call")) :
            LET result == last.log[i].val
            IN  /\ (result.t = "tuple" /\ Len(result.v) = 2)
                       => OriginalRanWith(result.v[1].v)
                /\ (result = None \/ (result.t = "dict" /\ ~DictFlag(result, "do_not_really_call")))
                       => OriginalRanWith(last.arg.v)

\* my_method(5) was called through its wrapper, a before_call subscriber
\* returned the pair ((4,), {}) and the original ran with 4 and returned 8
C23_Witness ==
    /\ PatchedCall
    /\ last.name = "my_method"
    /\ last.arg = Tuple(<<Num(5)>>)
    /\ \E i \in NotifiedAt("instance_before_call") : last.log[i].val = ArgsPair
    /\ OriginalRanWith(<<Num(4)>>)
    /\ last.val = Num(8)

\* C24: a call of a patched callable that is not suppressed and whose
\* original returns normally makes one before_call notification, then one
\* run of the original, then one after_call notification, and returns the
\* result of the after_call notification when that is not None and the
\* result of the original otherwise
C24_BeforeOriginalAfter ==
    (/\ PatchedCall
     /\ OriginalRuns(last.name) # {}
     /\ last.exc = "")
    => \E b \in NotifiedAt(EventKey(Callee.level, "before_call")),
          o \in OriginalRuns(last.name),
          a \in NotifiedAt(EventKey(Callee.level, "after_call")) :
           /\ b < o /\ o < a
           /\ NotifiedAt(EventKey(Callee.level, "before_call")) = {b}
           /\ OriginalRuns(last.name) = {o}
           /\ NotifiedAt(EventKey(Callee.level, "after_call")) = {a}
           /\ last.val = IF last.log[a].val # None THEN last.log[a].val
                         ELSE call_function(Machine({}), Callee.original, last.log[o].args, 0).val

\* my_method(5) ran through its wrapper and an after_call subscriber's
\* answer was returned in place of 10
C24_Witness ==
    /\ PatchedCall
    /\ last.name = "my_method"
    /\ OriginalRuns(last.name) # {}
    /\ last.exc = ""
    /\ \E a \in NotifiedAt("instance_after_call") : last.log[a].val = VetoMapping
    /\ last.val = VetoMapping

\* C25: a notification whose member name contains a denylisted fragment
\* invokes no subscriber callback and yields None, whatever is subscribed
\* and whatever default_value was supplied; a call of the wrapper of such a
\* member runs the original with the caller's arguments
C25_DenylistedNameSkipsDispatch ==
    /\ \A i \in LogIndices("notify") :
           Denylisted(last.log[i].name)
               => /\ last.log[i].invoked = <<>>
                  /\ last.log[i].val = None
                  /\ last.log[i].exc = ""
    /\ \A i \in LogIndices("callback") : ~Denylisted(last.log[i].args[2].v)
    /\ (last.op = "notify" /\ Denylisted(last.name))
           => (last.val = None /\ last.exc = "")
    /\ (PatchedCall /\ Denylisted(last.name)) => OriginalRanWith(last.arg.v)

\* the patched metta_err_str was called with a suppressing subscriber
\* registered at module_before_call, and its original ran
C25_Witness ==
    /\ PatchedCall
    /\ last.name = "metta_err_str"
    /\ VetoFirst(Subscribers("module_before_call"))
    /\ OriginalRanWith(last.arg.v)
    /\ last.val = Num(7)

\* name is an instance variable of obj that patch_instance_variables has
\* replaced by a property made from its captured value
PatchedInstanceVariable(name) ==
    /\ name \in DOMAIN obj_dict
    /\ IsPatchedProperty(name)
    /\ class_dict[name].fget.original.t # "property"

\* C26: an instance variable patched by the constructor pass reads, on the
\* constructed instance, as the value captured when it was patched, and
\* after an assignment of V it reads V
C26_InstanceVariableRoundTrip ==
    /\ (/\ last.op = "getattr"
        /\ history.constructions > 0
        /\ PatchedInstanceVariable(last.name))
       => /\ last.exc = ""
          /\ last.val = class_dict[last.name].fget.original
    /\ (/\ last.op = "setattr"
        /\ history.constructions > 0
        /\ PatchedInstanceVariable(last.name))
       => /\ last.exc = ""
          /\ getattr_obj(Machine({}), last.name, 0).val = last.arg

\* C27: when the original setter of a patched instance property raises
\* AttributeError (its assignment to instance_var meets the setterless
\* property the constructor pass installed), the assignment through the
\* wrapper raises nothing and stores the assigned value in the instance
\* under the name of the property being set
C27_SetterFallbackUnderPropertyName ==
    (/\ last.op = "setattr"
     /\ ~last.flag0
     /\ IsPatchedProperty(last.name)
     /\ class_dict[last.name].fget.original.t = "property"
     /\ OriginalRuns(last.name \o ".fset") # {}
     /\ RaisedIn(last.name \o ".fset") = {}
     /\ PatchedInstanceVariable("instance_var"))
    => /\ last.exc = ""
       /\ last.name \in DOMAIN obj_dict
       /\ obj_dict[last.name] = last.arg

\* C28: uses_self says of a function that it declares self exactly when
\* the first parameter it declares is named self
C28_SelfIsFirstParameter ==
    (/\ last.op = "uses_self"
     /\ last.arg.t = "function")
    => last.val = Bool(Len(last.arg.params) > 0 /\ last.arg.params[1] = "self")

\* C29: for a member of a class, classify_member_level gives INSTANCE for
\* a property, CLASS for a static-method or class-method descriptor and for
\* a member that is not callable, then INSTANCE for a callable that declares
\* self, MODULE for another callable implemented on object only, and CLASS
\* otherwise: the descriptor and non-callable rules come before the rule of
\* self
C29_LevelOfClassMember ==
    last.op = "classify_member_level" =>
        LET descriptor == last.before
            member == last.arg.v[1]
            implemented_from == last.arg.v[2].v
            uses_self_flag == last.arg.v[3].v
            level == last.val.v
            plain == descriptor.t \notin {"property", "staticmethod", "classmethod"}
        IN  /\ descriptor.t = "property" => level = "INSTANCE"
            /\ descriptor.t \in {"staticmethod", "classmethod"} => level = "CLASS"
            /\ (plain /\ ~callable(member)) => level = "CLASS"
            /\ (plain /\ callable(member) /\ uses_self_flag) => level = "INSTANCE"
            /\ (plain /\ callable(member) /\ ~uses_self_flag /\ implemented_from = "object")
                   => level = "MODULE"
            /\ (plain /\ callable(member) /\ ~uses_self_flag /\ implemented_from # "object")
                   => level = "CLASS"

\* a function behind a static-method descriptor was classified with
\* uses_self_flag set, and its level is CLASS
C29_Witness ==
    /\ last.op = "classify_member_level"
    /\ last.before.t = "staticmethod"
    /\ last.arg.v[1].t = "function"
    /\ last.arg.v[3] = Bool(TRUE)
    /\ last.val = Str("CLASS")

\* the kinds of members
MemberTypes ==
    {"CLASS", "MODULE", "PROPERTY", "STATIC_METHOD", "CLASS_METHOD", "FUNCTION", "METHOD",
     "SPECIAL_METHOD", "VARIABLE", "SPECIAL_VARIABLE"}

\* C30: classify_member_type gives every (class, name, member) one kind,
\* decided by the first shape that fits in the order class, module, property
\* descriptor, static-method descriptor, class-method descriptor, plain
\* function, bound method, non-callable, fallback; the kind is a function of
\* the descriptor, the name and the member, so classifying again gives the
\* same kind
C30_KindByPrecedence ==
    last.op = "classify_member_type" =>
        LET descriptor == last.before
            member == last.arg
            special == IsDunder(last.name)
            kind == last.val.v
        IN  /\ kind \in MemberTypes
            /\ kind =
                 IF member.t = "class" THEN "CLASS"
                 ELSE IF member.t = "module" THEN "MODULE"
                 ELSE IF descriptor.t = "property" THEN "PROPERTY"
                 ELSE IF descriptor.t = "staticmethod" THEN "STATIC_METHOD"
                 ELSE IF descriptor.t = "classmethod" THEN "CLASS_METHOD"
                 ELSE IF member.t = "function" /\ special THEN "SPECIAL_METHOD"
                 ELSE IF member.t = "function" THEN "FUNCTION"
                 ELSE IF member.t = "method" THEN "METHOD"
                 ELSE IF ~callable(member) /\ special THEN "SPECIAL_VARIABLE"
                 ELSE IF ~callable(member) THEN "VARIABLE"
                 ELSE IF special THEN "SPECIAL_METHOD"
                 ELSE "METHOD"

\* a plain function behind a static-method descriptor was classified as a
\* static method
C30_Witness ==
    /\ last.op = "classify_member_type"
    /\ last.before.t = "staticmethod"
    /\ last.arg.t = "function"
    /\ last.val = Str("STATIC_METHOD")

\* C31: the provenance of a member is Local only if the namespace of the
\* class itself holds the name; a member held by an ancestor only is
\* Default if that ancestor is object and Inherited for any other ancestor,
\* whatever its name
C31_ProvenanceByDefinition ==
    last.op = "classify_implementation" =>
        LET c == last.name
            member_name == last.arg.v
            k == implementing_class(Machine({}), member_name, c)
        IN  /\ last.val = Str("Local")
                   => member_name \in DOMAIN class_namespace(Machine({}), c)
            /\ k \notin {"None", c}
                   => last.val = Str(IF k = "object" THEN "Default" ELSE "Inherited")

\* C32: monkey_patch_members returns without raising in every state of the
\* registry that scans reach, one with an empty capture list included
C32_PatchingCompletes ==
    last.op = "monkey_patch_members" => last.exc = ""

\* C33: a member is recorded as patched only if a wrapper was installed for
\* it: after a patch_member_info whose installer raised, or that skipped
\* the member, the member is not among the patched ones, so the binding of
\* its name is a wrapper whenever the member is recorded
C33_RecordedOnlyIfInstalled ==
    (/\ last.op = "create_member_info_and_patch_member"
     /\ last.arg = Bool(FALSE))
    => \A f \in NewFunctions :
           (/\ f.name = last.name
            /\ already_patched(Machine({}), f))
           => /\ LogIndices("install_error") = {}
              /\ get_member_descriptor(class_dict, last.name) # last.before

\* the record of the member name that the scan of c captured, before any
\* wrapper was installed, has been handed to patch_member_info
ScannedThenPatched(c, name) ==
    /\ <<c, name>> \in history.patched_records
    /\ \A i \in RecordsOf(c, name) :
           /\ inspector.captured_members[c][i].member.t = "function"
           /\ inspector.captured_members[c][i].member.fn = "original"

\* C34: once MyClass and BaseClass were both scanned with all members and
\* both records of base_instance_method, which BaseClass defines and MyClass
\* inherits, were patched, a call of the method on the instance of BaseClass
\* and a call on the instance of MyClass each dispatch one before_call
\* notification
C34_InheritedMethodObservedOnBoth ==
    (/\ last.op \in {"call", "base_call"}
     /\ last.name = "base_instance_method"
     /\ ScannedThenPatched("MyClass", "base_instance_method")
     /\ ScannedThenPatched("BaseClass", "base_instance_method"))
    => Cardinality(NotifiedAt("instance_before_call")) = 1

====
